---- MODULE Spec2Model ----
(***************************************************************************)
(* Keycloak client manager: the admin-token cache of KeycloakService, the *)
(* client registry routes of the backend router, and the ownership claim. *)
(* Times are milliseconds, as Date.now() is.                              *)
(***************************************************************************)
EXTENDS Integers, Sequences, FiniteSets, TLC

\* an optional field is <<>> (undefined) or <<v>>
Undefined == <<>>
Some(v) == <<v>>
Val(x) == x[1]

\* ------------------------------------------------------------------ bounds
NumCallers == 2
MaxAuthRequests == 2
MaxTicks == 4
TickMs == 30 * 1000

\* --------------------------------------------------------------- constants
SafetyMarginSeconds == 60

Callers == 1..NumCallers
\* expires_in values (seconds) the token endpoint may answer with
Lifetimes == {30, 60, 120}
\* the lifetime the token endpoint answers with while the registry is exercised
RegistryLifetimes == {120}

MaxClients == 2
Realms == {"master", "dev"}
ClientIds == {"svc-a", "svc-b"}
\* the (realm, clientId) pairs requests name; <<>> is a request without realm
Slots == {<<Undefined, "svc-a">>, <<Undefined, "svc-b">>, <<Some("dev"), "svc-a">>}
Names == {"shared", "Shared"}
Actors == {"u1", "u2"}


VARIABLES
  now,              \* Date.now()
  accessToken,      \* KeycloakService.accessToken
  tokenExpiryTime,  \* KeycloakService.tokenExpiryTime
  pc,               \* position of each getAccessToken() call
  response,         \* token response each awaiting call will receive
  lastRet,          \* outcome of the getAccessToken() call that settled last
  authRequests,     \* token requests sent so far
  tokenTable        \* upstream: issued tokens, token id = index

tokenVars == <<now, accessToken, tokenExpiryTime, pc, response, lastRet, authRequests, tokenTable>>

NoRet == [kind |-> "none", caller |-> 0, token |-> Undefined, at |-> 0,
          cached |-> FALSE, expiry |-> Undefined]
NoResponse == [token |-> 0, expires_in |-> 0]

\* JavaScript truthiness of an optional number
Truthy(x) == x # Undefined /\ Val(x) # 0

\* mutant: the expiry comparison reversed
CacheValidReversed(token, expiry, t) ==
  /\ Truthy(token)
  /\ Truthy(expiry)
  /\ t > Val(expiry)

\* the guard of the early return of getAccessToken
CacheValid(token, expiry, t) ==
  /\ Truthy(token)
  /\ Truthy(expiry)
  /\ t < Val(expiry)

\* mutant: the expiry is not taken from the response
NewExpiryFixedLifetime(t, expires_in) == Some(t + (120 - SafetyMarginSeconds) * 1000)

\* Date.now() + (expires_in - 60) * 1000
NewExpiry(t, expires_in) == Some(t + (expires_in - SafetyMarginSeconds) * 1000)

InFlight == Cardinality({c \in Callers : pc[c] \in {"requesting", "responded"}})

TokenInit ==
  /\ now = 0
  /\ accessToken = Undefined
  /\ tokenExpiryTime = Undefined
  /\ pc = [c \in Callers |-> "idle"]
  /\ response = [c \in Callers |-> NoResponse]
  /\ lastRet = NoRet
  /\ authRequests = 0
  /\ tokenTable = <<>>

\* a call enters getAccessToken: the cache check, then either the early
\* return or the token request (the call suspends at the await)
GetAccessTokenStart(c) ==
  /\ pc[c] = "idle"
  /\ IF CacheValid(accessToken, tokenExpiryTime, now)
     THEN /\ lastRet' = [kind |-> "token", caller |-> c, token |-> accessToken,
                         at |-> now, cached |-> TRUE, expiry |-> tokenExpiryTime]
          /\ UNCHANGED <<pc, authRequests>>
     ELSE /\ authRequests < MaxAuthRequests
          /\ pc' = [pc EXCEPT ![c] = "requesting"]
          /\ authRequests' = authRequests + 1
          /\ UNCHANGED lastRet
  /\ UNCHANGED <<now, accessToken, tokenExpiryTime, response, tokenTable>>

\* the token endpoint answers a request with a new token
UpstreamIssue(c, expires_in) ==
  /\ pc[c] = "requesting"
  /\ tokenTable' = Append(tokenTable, [issuedAt |-> now, expires_in |-> expires_in])
  /\ response' = [response EXCEPT ![c] = [token |-> Len(tokenTable) + 1, expires_in |-> expires_in]]
  /\ pc' = [pc EXCEPT ![c] = "responded"]
  /\ UNCHANGED <<now, accessToken, tokenExpiryTime, lastRet, authRequests>>

\* the token endpoint is unreachable or rejects the credentials: the catch
\* block logs and rethrows, the cache is left as it was
UpstreamReject(c) ==
  /\ pc[c] = "requesting"
  /\ pc' = [pc EXCEPT ![c] = "idle"]
  /\ lastRet' = [kind |-> "error", caller |-> c, token |-> Undefined,
                 at |-> now, cached |-> FALSE, expiry |-> Undefined]
  /\ UNCHANGED <<now, accessToken, tokenExpiryTime, response, authRequests, tokenTable>>

\* the call resumes after the await with the response
GetAccessTokenResume(c) ==
  /\ pc[c] = "responded"
  /\ accessToken' = Some(response[c].token)
  /\ tokenExpiryTime' = NewExpiry(now, response[c].expires_in)
  /\ lastRet' = [kind |-> "token", caller |-> c, token |-> accessToken',
                 at |-> now, cached |-> FALSE, expiry |-> tokenExpiryTime']
  /\ response' = [response EXCEPT ![c] = NoResponse]
  /\ pc' = [pc EXCEPT ![c] = "idle"]
  /\ UNCHANGED <<now, authRequests, tokenTable>>

Tick ==
  /\ now < MaxTicks * TickMs
  /\ now' = now + TickMs
  /\ UNCHANGED <<accessToken, tokenExpiryTime, pc, response, lastRet, authRequests, tokenTable>>

TokenNext ==
  \/ \E c \in Callers : GetAccessTokenStart(c)
  \/ \E c \in Callers, e \in Lifetimes : UpstreamIssue(c, e)
  \/ \E c \in Callers : UpstreamReject(c)
  \/ \E c \in Callers : GetAccessTokenResume(c)
  \/ Tick


\* ---------------------------------------------------------------- registry
VARIABLES
  clients,   \* upstream: the client registrations of all realms
  nextId,    \* upstream: next id to assign
  resp       \* the HTTP response of the route that ran last, with its request

registryVars == <<clients, nextId, resp>>

VARIABLES
  secrets,    \* upstream: the current secret of the registrations that have one
  hasTable,   \* database: the table keycloak_client_secret_history exists
  ledger,     \* database: the rows of that table, in insertion order
  nextRowId   \* database: the next value of its increments('id') column

ledgerVars == <<secrets, hasTable, ledger, nextRowId>>

VARIABLES
  appConfig,  \* the keycloak.* settings of the Backstage configuration
  inflight,   \* the handlers suspended at an await, by request
  page,       \* the state of the My Keycloak Clients page and its click handler
  signedIn    \* the sign-ins the resolver has let through: account and issued sub

serviceVars == <<appConfig, inflight, page, signedIn>>
vars == <<tokenVars, registryVars, ledgerVars, serviceVars>>

\* requests that are handled at the same time
Requests == 1..NumCallers
NoHandler == [route |-> ""]

\* a configuration without keycloak.username and keycloak.password
\* the page once loaded: the click handler idle, nothing typed, no candidates;
\* calls: the API calls of the last press of Take Ownership that got past
\* the check of the input, and how they ended
NoPage == [pc |-> "idle", claimInput |-> "", claimCandidates |-> {}, clients |-> {},
           error |-> Undefined, calls |-> <<>>]

NoCredentials == [username |-> Undefined, password |-> Undefined]

\* config.getOptionalString(key) || fallback
OrDefault(setting, fallback) ==
  IF setting # Undefined /\ Val(setting) # "" THEN Val(setting) ELSE fallback

\* this.config as the constructor of KeycloakService builds it
KeycloakConfig(app) ==
  [realm |-> "master",
   username |-> OrDefault(app.username, "admin"),
   password |-> OrDefault(app.password, "admin")]

\* the grant_type getAccessToken appends to the form of the token request
GrantType(cfg) ==
  IF cfg.username # "" /\ cfg.password # "" THEN "password" ELSE "client_credentials"

ServiceInit ==
  /\ appConfig = NoCredentials
  /\ inflight = [q \in Requests |-> NoHandler]
  /\ page = NoPage
  /\ signedIn = {}

NoBody == [error |-> <<>>, code |-> "", clients |-> {}, secret |-> Undefined, rows |-> <<>>]
\* settings: the boolean settings a create request carries, by name
NoReq == [identity |-> Undefined, realm |-> Undefined, clientId |-> Undefined, name |-> Undefined, id |-> 0,
          settings |-> <<>>]
\* upstream: how the admin request of the route ended ("none": not sent);
\* db: how its statement on the ledger table ended ("none": not issued)
NoResp == [route |-> "", status |-> 0, body |-> NoBody, req |-> NoReq, sent |-> <<>>, upstream |-> "none",
           db |-> "none"]

RegistryInit ==
  /\ clients = {}
  /\ nextId = 1
  /\ resp = NoResp

\* the table as createRouter leaves it on first start
TableInit ==
  /\ secrets = <<>>
  /\ hasTable = TRUE
  /\ ledger = <<>>
  /\ nextRowId = 1

Init == TokenInit /\ RegistryInit /\ TableInit /\ ServiceInit

\* identityClient.getIdentity({ request }): throws, or resolves to undefined,
\* or resolves to an identity with a userEntityRef
IdentityResults ==
  {[throws |-> TRUE, ref |-> Undefined], [throws |-> FALSE, ref |-> Undefined]}
    \cup {[throws |-> FALSE, ref |-> Some(a)] : a \in Actors}

\* mutant: the resolved identity is dropped
CreatorUnknown(identity) == "unknown"

\* identity?.identity.userEntityRef || 'unknown'
Creator(identity) == IF identity.ref # Undefined THEN Val(identity.ref) ELSE "unknown"

\* const { realm = 'master', ...clientData } = request.body
BodyRealm(r) == IF r # Undefined THEN Val(r) ELSE "master"

\* (request.query.realm as string) || 'master'
QueryRealm(r) == IF r # Undefined THEN Val(r) ELSE "master"

\* { ...clientData, attributes: { ...(clientData.attributes || {}), createdBy: creator } }
Enriched(clientData, creator) ==
  [clientData EXCEPT !.attributes =
     Some(("createdBy" :> creator) @@
          (IF clientData.attributes # Undefined THEN Val(clientData.attributes) ELSE <<>>))]

\* the client object createClient builds from clientData and posts upstream
ClientRepresentation(clientData) ==
  [clientId |-> clientData.clientId,
   name |-> IF clientData.name # Undefined THEN Val(clientData.name) ELSE clientData.clientId]

\* a property of a request body: undefined when the body does not carry it
Property(body, k) == IF k \in DOMAIN body THEN body[k] ELSE Undefined

\* x || fallback on an optional boolean
OrElse(x, fallback) == IF x # Undefined /\ Val(x) THEN Val(x) ELSE fallback

\* the flow settings of the client object createClient posts
ClientSettings(clientData) ==
  [directAccessGrantsEnabled |-> OrElse(Property(clientData, "directAccessGrantsEnabled"), TRUE),
   implicitFlowEnabled |-> OrElse(Property(clientData, "implicitFlowEnabled"), FALSE),
   standardFlowEnabled |-> OrElse(Property(clientData, "standardFlowEnabled"), TRUE)]

\* the flow settings a request body carries
SuppliedSettings(body) ==
  [k \in {"directAccessGrantsEnabled", "implicitFlowEnabled", "standardFlowEnabled"} |->
     Property(body, k)]

\* upstream: what is stored for a posted representation
StoredClient(rep, realm, id) ==
  [id |-> id, realm |-> realm, clientId |-> rep.clientId, name |-> rep.name,
   attributes |-> IF "attributes" \in DOMAIN rep /\ rep.attributes # Undefined
                  THEN Val(rep.attributes) ELSE <<>>]

\* upstream: a PUT of a partial representation replaces the fields it
\* carries and sets the attributes it carries
UpdatedClient(c, clientData) ==
  [c EXCEPT !.name = IF clientData.name # Undefined THEN Val(clientData.name) ELSE @,
            !.attributes = IF clientData.attributes # Undefined
                           THEN Val(clientData.attributes) @@ @ ELSE @]

\* error messages are sequences of the template's parts
AlreadyExistsMessage(clientId, realm) == <<"Client ", clientId, " already exists in realm ", realm>>
CreateFailedMessage(cause) == <<"Failed to create client: ", cause>>
UpdateFailedMessage(cause) == <<"Failed to update client: ", cause>>
AuthFailedMessage(cause) == <<"Failed to authenticate with Keycloak: ", cause>>

\* mutant: every message is taken to say 'already exists'
IncludesAlreadyExistsAlways(message) == TRUE

\* String.prototype.includes('already exists') on a message
IncludesAlreadyExists(message) ==
  \E i \in 1..Len(message) : message[i] \in {" already exists in realm ", "already exists"}

\* mutant: every create failure is a 500
CreateErrorStatusAlways500(message) == 500

\* error.message.includes('already exists') ? 409 : 500
CreateErrorStatus(message) == IF IncludesAlreadyExists(message) THEN 409 ELSE 500

\* await this.getAccessToken() inside a route: the cached token, or one token
\* request that succeeds (tokOk) or fails
AcquireToken(tokOk, expires_in) ==
  IF CacheValid(accessToken, tokenExpiryTime, now)
  THEN /\ tokOk
       /\ UNCHANGED <<accessToken, tokenExpiryTime, tokenTable>>
  ELSE IF tokOk
  THEN /\ tokenTable' = Append(tokenTable, [issuedAt |-> now, expires_in |-> expires_in])
       /\ accessToken' = Some(Len(tokenTable) + 1)
       /\ tokenExpiryTime' = NewExpiry(now, expires_in)
  ELSE UNCHANGED <<accessToken, tokenExpiryTime, tokenTable>>

\* mutant: a token request is sent twice
TokenRequestsRetried ==
  IF CacheValid(accessToken, tokenExpiryTime, now) THEN <<>>
  ELSE <<[op |-> "token", realm |-> KeycloakConfig(appConfig).realm,
          grant_type |-> GrantType(KeycloakConfig(appConfig))],
         [op |-> "token", realm |-> KeycloakConfig(appConfig).realm,
          grant_type |-> GrantType(KeycloakConfig(appConfig))]>>

\* the token request getAccessToken sends, if it sends one
TokenRequests ==
  IF CacheValid(accessToken, tokenExpiryTime, now) THEN <<>>
  ELSE <<[op |-> "token", realm |-> KeycloakConfig(appConfig).realm,
          grant_type |-> GrantType(KeycloakConfig(appConfig))]>>

InRealm(realm) == {c \in clients : c.realm = realm}

\* POST /clients
CreateClientRoute(identity, body, tokOk, expires_in, upOk) ==
  LET realm == BodyRealm(body.realm)
      clientData == [clientId |-> body.clientId, name |-> body.name, attributes |-> body.attributes]
      req == [NoReq EXCEPT !.identity = identity.ref, !.realm = body.realm,
                           !.clientId = Some(body.clientId), !.settings = SuppliedSettings(body)]
      Answer(status, message, sent, up) ==
        resp' = [route |-> "create", status |-> status,
                 body |-> [NoBody EXCEPT !.error = message], req |-> req, sent |-> sent,
                 upstream |-> up, db |-> "none"]
      post == <<[op |-> "createClient", realm |-> realm, client |-> ClientSettings(body)]>>
  IN
  IF identity.throws
  THEN /\ tokOk /\ upOk
       /\ Answer(CreateErrorStatus(<<"identity">>), <<"identity">>, <<>>, "none")
       /\ UNCHANGED <<clients, nextId, accessToken, tokenExpiryTime, tokenTable>>
  ELSE
    LET enriched == Enriched(clientData, Creator(identity))
        rep == ClientRepresentation(enriched)
    IN /\ AcquireToken(tokOk, expires_in)
       /\ IF ~tokOk
          THEN /\ Answer(CreateErrorStatus(AuthFailedMessage("token")), AuthFailedMessage("token"),
                         TokenRequests, "none")
               /\ UNCHANGED <<clients, nextId>>
          ELSE IF ~upOk
          THEN /\ Answer(CreateErrorStatus(CreateFailedMessage("unavailable")),
                         CreateFailedMessage("unavailable"), TokenRequests \o post, "unavailable")
               /\ UNCHANGED <<clients, nextId>>
          ELSE IF \E c \in InRealm(realm) : c.clientId = rep.clientId
          THEN /\ Answer(CreateErrorStatus(AlreadyExistsMessage(rep.clientId, realm)),
                         AlreadyExistsMessage(rep.clientId, realm), TokenRequests \o post, "conflict")
               /\ UNCHANGED <<clients, nextId>>
          ELSE /\ nextId <= MaxClients
               /\ clients' = clients \cup {StoredClient(rep, realm, nextId)}
               /\ nextId' = nextId + 1
               /\ Answer(201, <<>>, TokenRequests \o post, "ok")

\* upstream: the clients of a realm whose attributes.createdBy is creator
ClientsByCreator(realm, creator) ==
  {c \in InRealm(realm) : "createdBy" \in DOMAIN c.attributes /\ c.attributes["createdBy"] = creator}

\* GET /my-clients and its alias GET /clients/mine
MyClientsRoute(identity, queryRealm, tokOk, expires_in, upOk) ==
  LET realm == QueryRealm(queryRealm)
      req == [NoReq EXCEPT !.identity = identity.ref, !.realm = queryRealm]
      get == <<[op |-> "listClients", realm |-> realm]>>
      Answer(status, list, sent, up) ==
        resp' = [route |-> "my-clients", status |-> status,
                 body |-> [NoBody EXCEPT !.clients = list], req |-> req, sent |-> sent,
                 upstream |-> up, db |-> "none"]
  IN
  /\ UNCHANGED <<clients, nextId>>
  /\ IF identity.throws
     THEN /\ tokOk /\ upOk
          /\ Answer(500, {}, <<>>, "none")
          /\ UNCHANGED <<accessToken, tokenExpiryTime, tokenTable>>
     ELSE /\ AcquireToken(tokOk, expires_in)
          /\ IF ~tokOk THEN Answer(500, {}, TokenRequests, "none")
             ELSE IF ~upOk THEN Answer(500, {}, TokenRequests \o get, "unavailable")
             ELSE Answer(200, ClientsByCreator(realm, Creator(identity)), TokenRequests \o get, "ok")

\* PUT /clients/:id. up: how the upstream answers the admin request
UpdateClientRoute(id, body, tokOk, expires_in, up) ==
  LET realm == BodyRealm(body.realm)
      clientData == [name |-> body.name, attributes |-> body.attributes]
      req == [NoReq EXCEPT !.realm = body.realm, !.id = id]
      put == <<[op |-> "updateClient", realm |-> realm]>>
      Answer(status, message, sent, upstream) ==
        resp' = [route |-> "update", status |-> status,
                 body |-> [NoBody EXCEPT !.error = message], req |-> req,
                 sent |-> sent, upstream |-> upstream, db |-> "none"]
  IN
  /\ UNCHANGED nextId
  /\ AcquireToken(tokOk, expires_in)
  /\ IF ~tokOk
     THEN Answer(500, AuthFailedMessage("token"), TokenRequests, "none") /\ UNCHANGED clients
     ELSE IF up # "ok"
     THEN Answer(500, UpdateFailedMessage(up), TokenRequests \o put, up) /\ UNCHANGED clients
     ELSE IF ~(\E c \in InRealm(realm) : c.id = id)
     THEN /\ Answer(500, UpdateFailedMessage("notfound"), TokenRequests \o put, "notfound")
          /\ UNCHANGED clients
     ELSE /\ clients' = {IF c.id = id THEN UpdatedClient(c, clientData) ELSE c : c \in clients}
          /\ Answer(200, <<>>, TokenRequests \o put, "ok")

NotFoundMessage(clientId, realm) == <<"Client ", clientId, " not found in realm ", realm>>
GetFailedMessage(cause) == <<"Failed to get client: ">> \o cause

\* GET /clients/:clientId. up: how the upstream answers the admin request
GetClientRoute(clientId, queryRealm, tokOk, expires_in, up) ==
  LET realm == QueryRealm(queryRealm)
      req == [NoReq EXCEPT !.realm = queryRealm, !.clientId = Some(clientId)]
      get == <<[op |-> "getClient", realm |-> realm]>>
      found == {c \in InRealm(realm) : c.clientId = clientId}
      Answer(status, message, list, sent, upstream) ==
        resp' = [route |-> "get", status |-> status,
                 body |-> [NoBody EXCEPT !.error = message, !.clients = list], req |-> req,
                 sent |-> sent, upstream |-> upstream, db |-> "none"]
  IN
  /\ UNCHANGED <<clients, nextId>>
  /\ AcquireToken(tokOk, expires_in)
  /\ IF ~tokOk
     THEN Answer(404, AuthFailedMessage("token"), {}, TokenRequests, "none")
     ELSE IF up # "ok"
     THEN Answer(404, GetFailedMessage(<<up>>), {}, TokenRequests \o get, up)
     ELSE IF found = {}
     THEN Answer(404, GetFailedMessage(NotFoundMessage(clientId, realm)), {}, TokenRequests \o get, "ok")
     ELSE Answer(200, <<>>, {CHOOSE c \in found : TRUE}, TokenRequests \o get, "ok")

\* DELETE /clients/:id
DeleteClientRoute(id, queryRealm, tokOk, expires_in, upOk) ==
  LET realm == QueryRealm(queryRealm)
      req == [NoReq EXCEPT !.realm = queryRealm, !.id = id]
      del == <<[op |-> "deleteClient", realm |-> realm]>>
      Answer(status, sent, up) ==
        resp' = [route |-> "delete", status |-> status, body |-> NoBody, req |-> req,
                 sent |-> sent, upstream |-> up, db |-> "none"]
  IN
  /\ UNCHANGED nextId
  /\ AcquireToken(tokOk, expires_in)
  /\ IF ~tokOk THEN Answer(500, TokenRequests, "none") /\ UNCHANGED clients
     ELSE IF ~upOk THEN Answer(500, TokenRequests \o del, "unavailable") /\ UNCHANGED clients
     ELSE IF ~(\E c \in InRealm(realm) : c.id = id)
     THEN Answer(500, TokenRequests \o del, "notfound") /\ UNCHANGED clients
     ELSE /\ clients' = {c \in clients : c.id # id}
          /\ Answer(204, TokenRequests \o del, "ok")

OptRealms == {Undefined, Some("dev")}
QueryRealms == {Undefined} \cup {Some(r) : r \in Realms}

\* a body names a slot and carries a name, a createdBy of its own, or neither
CreateBodies ==
  {[realm |-> s[1], clientId |-> s[2], name |-> x[1], attributes |-> x[2]] :
     s \in Slots,
     x \in {<<Undefined, Undefined>>, <<Some("shared"), Undefined>>,
            <<Undefined, Some("createdBy" :> "u2")>>}}

UpdateBodies ==
  {b \in [realm : OptRealms, name : {Undefined, Some("shared")},
          attributes : {Undefined} \cup {Some("createdBy" :> a) : a \in Actors}] :
     (b.name = Undefined) # (b.attributes = Undefined)}

\* the outcomes of the token request and of the admin request of one route;
\* a failed token request leaves no admin request to fail, and a route that
\* sends neither request has the one outcome <<TRUE, TRUE>>
UpstreamOutcomes == {<<TRUE, TRUE>>, <<TRUE, FALSE>>, <<FALSE, TRUE>>}

Ids == 1..MaxClients

RegistryNext ==
  /\ \/ \E identity \in IdentityResults, body \in CreateBodies, o \in UpstreamOutcomes,
          e \in RegistryLifetimes : CreateClientRoute(identity, body, o[1], e, o[2])
     \/ \E identity \in IdentityResults, r \in QueryRealms, o \in UpstreamOutcomes,
          e \in RegistryLifetimes : MyClientsRoute(identity, r, o[1], e, o[2])
     \/ \E id \in Ids, body \in UpdateBodies, o \in UpstreamOutcomes,
          e \in RegistryLifetimes :
          UpdateClientRoute(id, body, o[1], e, IF o[2] THEN "ok" ELSE "unavailable")
     \/ \E id \in Ids, r \in OptRealms, o \in UpstreamOutcomes,
          e \in RegistryLifetimes : DeleteClientRoute(id, r, o[1], e, o[2])
  /\ UNCHANGED <<now, pc, response, lastRet, authRequests, ledgerVars, serviceVars>>

\* --------------------------------------------------------- ownership claim
\* new Date(t).toISOString(), as a string distinct for distinct instants
Iso(t) == ToString(t)

\* mutant: the claim overwrites the creator
ClaimAttributesOverwriteCreator(attributes, actor, t) ==
  ("createdByTag" :> "inherited") @@ ("inheritedBy" :> actor) @@ ("inheritedAt" :> Iso(t))
    @@ ("createdBy" :> actor) @@ attributes

\* the attributes of a claimed registration
ClaimAttributes(attributes, actor, t) ==
  ("createdByTag" :> "inherited") @@ ("inheritedBy" :> actor) @@ ("inheritedAt" :> Iso(t))
    @@ attributes

LowerCase(n) == IF n = "Shared" THEN "shared" ELSE n

\* mutant: names compared without regard to case
MatchesIgnoreCase(realm, selector) ==
  IF selector.clientId # Undefined
  THEN {c \in InRealm(realm) : c.clientId = Val(selector.clientId)}
  ELSE {c \in InRealm(realm) : LowerCase(c.name) = LowerCase(Val(selector.name))}

\* the registrations of the realm a selector matches: exact clientId, or
\* exact name
Matches(realm, selector) ==
  IF selector.clientId # Undefined
  THEN {c \in InRealm(realm) : c.clientId = Val(selector.clientId)}
  ELSE {c \in InRealm(realm) : c.name = Val(selector.name)}

Candidate(c) == [id |-> c.id, clientId |-> c.clientId, name |-> c.name]

\* POST /take-ownership with body { realm, clientId } or { realm, name }.
\* outcome: how the upstream calls of the claim end
TakeOwnershipRoute(identity, body, outcome, expires_in) ==
  LET req == [NoReq EXCEPT !.identity = identity.ref, !.realm = Some(body.realm),
                           !.clientId = body.clientId, !.name = body.name]
      lookup == <<[op |-> "listClients", realm |-> body.realm]>>
      put == <<[op |-> "updateClient", realm |-> body.realm]>>
      Answer(status, code, list, sent, up) ==
        resp' = [route |-> "take-ownership", status |-> status,
                 body |-> [NoBody EXCEPT !.error = IF code = "" THEN <<>> ELSE <<code>>,
                                         !.code = code, !.clients = list],
                 req |-> req, sent |-> sent, upstream |-> up, db |-> "none"]
      matches == Matches(body.realm, body)
  IN
  /\ UNCHANGED nextId
  /\ IF identity.throws \/ identity.ref = Undefined
     THEN /\ outcome = "ok"
          /\ Answer(401, "UNAUTHENTICATED", {}, <<>>, "none")
          /\ UNCHANGED <<clients, accessToken, tokenExpiryTime, tokenTable>>
     ELSE /\ AcquireToken(outcome # "tokenFail", expires_in)
          /\ IF outcome = "tokenFail"
             THEN Answer(500, "AUTH_FAILURE", {}, TokenRequests, "none") /\ UNCHANGED clients
             ELSE IF outcome = "lookupFail"
             THEN /\ Answer(500, "UPSTREAM_UNAVAILABLE", {}, TokenRequests \o lookup, "unavailable")
                  /\ UNCHANGED clients
             ELSE IF matches = {}
             THEN /\ Answer(404, "NOT_FOUND", {}, TokenRequests \o lookup, "ok")
                  /\ outcome = "ok"
                  /\ UNCHANGED clients
             ELSE IF Cardinality(matches) > 1
             THEN /\ Answer(409, "AMBIGUOUS_NAME", {Candidate(c) : c \in matches},
                            TokenRequests \o lookup, "ok")
                  /\ outcome = "ok"
                  /\ UNCHANGED clients
             ELSE IF outcome = "updateFail"
             THEN /\ Answer(500, "UPSTREAM_UNAVAILABLE", {}, TokenRequests \o lookup \o put,
                            "unavailable")
                  /\ UNCHANGED clients
             ELSE LET match == CHOOSE c \in matches : TRUE
                      claimed == UpdatedClient(match,
                                   [name |-> Undefined,
                                    attributes |-> Some(ClaimAttributes(match.attributes,
                                                          Val(identity.ref), now))])
                  IN /\ clients' = (clients \ {match}) \cup {claimed}
                     /\ Answer(200, "", {claimed}, TokenRequests \o lookup \o put, "ok")

\* mutant: every response is taken as ok
ResponseOkAlways(status) == TRUE

\* response.ok
ResponseOk(status) == status \in 200..299

\* mutant: the thrown error does not take over the fields of the body
TakeOwnershipNoAssign(r) ==
  IF ~(r.status \in 200..299)
  THEN [thrown |-> TRUE,
        message |-> IF r.body.error # <<>> THEN r.body.error ELSE <<"Failed to take ownership">>,
        code |-> "", candidates |-> {}, value |-> {}]
  ELSE [thrown |-> FALSE, message |-> <<>>, code |-> "", candidates |-> {}, value |-> r.body.clients]

\* KeycloakApiClient.takeOwnership: the parsed body of an ok response, or a
\* thrown error that carries the fields of the error body
TakeOwnership(r) ==
  IF ~ResponseOk(r.status)
  THEN [thrown |-> TRUE,
        message |-> IF r.body.error # <<>> THEN r.body.error ELSE <<"Failed to take ownership">>,
        code |-> r.body.code, candidates |-> r.body.clients, value |-> {}]
  ELSE [thrown |-> FALSE, message |-> <<>>, code |-> "", candidates |-> {}, value |-> r.body.clients]

\* a registration provisioned directly in the upstream, outside this service
Provision(slot, name, attributes) ==
  LET realm == BodyRealm(slot[1])
  IN /\ nextId <= MaxClients
     /\ ~(\E c \in InRealm(realm) : c.clientId = slot[2])
     /\ clients' = clients \cup {[id |-> nextId, realm |-> realm, clientId |-> slot[2],
                                  name |-> name, attributes |-> attributes]}
     /\ nextId' = nextId + 1
     /\ resp' = [NoResp EXCEPT !.route = "provision"]
     /\ UNCHANGED <<accessToken, tokenExpiryTime, tokenTable>>

\* the name and attributes of the registrations provisioned outside
ProvisionedShapes == {<<"shared", <<>>>>, <<"Shared", <<>>>>, <<"shared", "createdBy" :> "u1">>}

ClaimBodies ==
  {[realm |-> r, clientId |-> Some(x), name |-> Undefined] : r \in Realms, x \in ClientIds}
    \cup {[realm |-> r, clientId |-> Undefined, name |-> Some(n)] : r \in Realms, n \in Names}

\* identify(request): an actor, or the failure Unauthenticated
ClaimIdentities == {i \in IdentityResults : i.throws \/ i.ref # Undefined}

ClaimOutcomes == {"ok", "tokenFail", "lookupFail", "updateFail"}

ClaimNext ==
  /\ \/ \E slot \in Slots, x \in ProvisionedShapes : Provision(slot, x[1], x[2])
     \/ \E identity \in ClaimIdentities, body \in ClaimBodies, o \in ClaimOutcomes,
          e \in RegistryLifetimes : TakeOwnershipRoute(identity, body, o, e)
  /\ UNCHANGED <<now, pc, response, lastRet, authRequests, ledgerVars, serviceVars>>

\* ------------------------------------------------------------ secret ledger
MaxRows == 2

\* a secret is a string, held as the sequence of its characters; Undefined is
\* a response of the upstream that carries no value
SecretValues ==
  {Undefined, Some(<<"a", "b", "c">>), Some(<<"a", "b", "c", "d">>),
   Some(<<"a", "b", "c", "d", "e">>)}

\* String.prototype.slice(-n)
SliceLast(str, n) == SubSeq(str, IF Len(str) > n THEN Len(str) - n + 1 ELSE 1, Len(str))

\* mutant: the first four characters are kept
Last4Leading(secret) ==
  IF secret # Undefined /\ Len(Val(secret)) >= 4 THEN Some(SubSeq(Val(secret), 1, 4)) ELSE Undefined

\* typeof secret === 'string' && secret.length >= 4 ? secret.slice(-4) : null
Last4(secret) ==
  IF secret # Undefined /\ Len(Val(secret)) >= 4 THEN Some(SliceLast(Val(secret), 4)) ELSE Undefined

\* mutant: every row gets the first id of the sequence
InsertedRowFirstId(realm, id, createdBy, last4) ==
  [id |-> 1, realm |-> realm, client_id |-> id, created_by |-> createdBy,
   action |-> "regenerated", secret_last4 |-> last4, created_at |-> now]

\* the row an insert of the given columns stores: id from the sequence,
\* created_at from the column default knex.fn.now()
InsertedRow(realm, id, createdBy, last4) ==
  [id |-> nextRowId, realm |-> realm, client_id |-> id, created_by |-> createdBy,
   action |-> "regenerated", secret_last4 |-> last4, created_at |-> now]

RegenerateFailedMessage(cause) == <<"Failed to regenerate client secret: ", cause>>

\* POST /clients/:id/secret. generated: the secret the upstream sets;
\* returned: the value its response carries; dbOk: the insert succeeds
RegenerateSecretRoute(identity, id, queryRealm, tokOk, expires_in, upOk, generated, returned, dbOk) ==
  LET realm == QueryRealm(queryRealm)
      req == [NoReq EXCEPT !.identity = identity.ref, !.realm = queryRealm, !.id = id]
      post == <<[op |-> "regenerateClientSecret", realm |-> realm]>>
      Answer(status, message, value, sent, up, db) ==
        resp' = [route |-> "regenerate", status |-> status,
                 body |-> [NoBody EXCEPT !.error = message, !.secret = value], req |-> req,
                 sent |-> sent, upstream |-> up, db |-> db]
  IN
  /\ UNCHANGED <<clients, nextId, hasTable>>
  /\ AcquireToken(tokOk, expires_in)
  /\ IF ~tokOk
     THEN /\ Answer(500, AuthFailedMessage("token"), Undefined, TokenRequests, "none", "none")
          /\ UNCHANGED <<secrets, ledger, nextRowId>>
     ELSE IF ~upOk
     THEN /\ Answer(500, RegenerateFailedMessage("unavailable"), Undefined, TokenRequests \o post,
                    "unavailable", "none")
          /\ UNCHANGED <<secrets, ledger, nextRowId>>
     ELSE IF ~(\E c \in InRealm(realm) : c.id = id)
     THEN /\ Answer(500, RegenerateFailedMessage("notfound"), Undefined, TokenRequests \o post,
                    "notfound", "none")
          /\ UNCHANGED <<secrets, ledger, nextRowId>>
     ELSE /\ secrets' = (id :> generated) @@ secrets
          /\ IF identity.throws
             THEN /\ Answer(500, <<"identity">>, Undefined, TokenRequests \o post, "ok", "none")
                  /\ UNCHANGED <<ledger, nextRowId>>
             ELSE IF ~dbOk
             THEN /\ Answer(500, <<"insert">>, Undefined, TokenRequests \o post, "ok", "failed")
                  /\ UNCHANGED <<ledger, nextRowId>>
             ELSE /\ Len(ledger) < MaxRows
                  /\ ledger' = Append(ledger, InsertedRow(realm, id, Creator(identity), Last4(returned)))
                  /\ nextRowId' = nextRowId + 1
                  /\ Answer(200, <<>>, returned, TokenRequests \o post, "ok", "written")

\* mutant: the author is left out of the filter
WhereAnyAuthor(table, realm, id, createdBy) ==
  {table[i] : i \in {j \in 1..Len(table) : table[j].realm = realm /\ table[j].client_id = id}}

\* .where({ realm, client_id: id, created_by: createdBy })
Where(table, realm, id, createdBy) ==
  {table[i] : i \in {j \in 1..Len(table) :
                       /\ table[j].realm = realm
                       /\ table[j].client_id = id
                       /\ table[j].created_by = createdBy}}

\* .orderBy('created_at', 'desc'): every order of the rows in which created_at
\* does not increase; the database is free in the order of equal created_at
OrderByCreatedAtDesc(rows) ==
  {f \in [1..Cardinality(rows) -> rows] :
     /\ \A i, j \in DOMAIN f : i # j => f[i] # f[j]
     /\ \A i, j \in DOMAIN f : i < j => f[i].created_at >= f[j].created_at}

\* mutant: the query of the history is itself recorded in the table
SecretHistoryRouteRecorded(identity, id, queryRealm, dbOk) ==
  /\ Len(ledger) < MaxRows
  /\ ledger' = Append(ledger, InsertedRow(QueryRealm(queryRealm), id, Creator(identity), Undefined))
  /\ nextRowId' = nextRowId + 1
  /\ resp' = [NoResp EXCEPT !.route = "secret-history", !.status = 200, !.db = "read"]
  /\ UNCHANGED <<clients, nextId, accessToken, tokenExpiryTime, tokenTable, secrets, hasTable>>

\* GET /clients/:id/secret-history
SecretHistoryRoute(identity, id, queryRealm, dbOk) ==
  LET realm == QueryRealm(queryRealm)
      req == [NoReq EXCEPT !.identity = identity.ref, !.realm = queryRealm, !.id = id]
      Answer(status, message, rows, db) ==
        resp' = [route |-> "secret-history", status |-> status,
                 body |-> [NoBody EXCEPT !.error = message, !.rows = rows], req |-> req,
                 sent |-> <<>>, upstream |-> "none", db |-> db]
  IN
  /\ UNCHANGED <<clients, nextId, accessToken, tokenExpiryTime, tokenTable, ledgerVars>>
  /\ IF identity.throws
     THEN dbOk /\ Answer(500, <<"identity">>, <<>>, "none")
     ELSE IF ~dbOk
     THEN Answer(500, <<"select">>, <<>>, "failed")
     ELSE \E rows \in OrderByCreatedAtDesc(Where(ledger, realm, id, Creator(identity))) :
            Answer(200, <<>>, rows, "read")

\* mutant: the table is created anew on every start
TableAfterInitRecreated(exists, table) == <<>>

\* if (!hasTable) createTable(...): the rows after createRouter's table init
TableAfterInit(exists, table) == IF ~exists THEN <<>> ELSE table

\* createRouter runs again (the backend restarts): a new KeycloakService
\* with no token, and the table init. A restart that drops a token is counted
\* against the tokens the upstream issues
CreateRouter ==
  /\ accessToken # Undefined => Len(tokenTable) < MaxAuthRequests
  /\ accessToken' = Undefined
  /\ tokenExpiryTime' = Undefined
  /\ hasTable' = TRUE
  /\ ledger' = TableAfterInit(hasTable, ledger)
  /\ nextRowId' = IF hasTable THEN nextRowId ELSE 1
  /\ resp' = [NoResp EXCEPT !.route = "createRouter"]
  /\ UNCHANGED <<clients, nextId, tokenTable, secrets>>

\* {row.secret_last4 || ''}: the text of the "Last 4" cell of a history row
Last4Cell(row) ==
  IF row.secret_last4 # Undefined /\ Val(row.secret_last4) # <<>> THEN Val(row.secret_last4) ELSE <<>>

\* KeycloakApiClient.regenerateClientSecret: data.secret of an ok response,
\* or a thrown Error with the message of the error body
RegenerateClientSecret(r) ==
  IF ~ResponseOk(r.status)
  THEN [thrown |-> TRUE,
        message |-> IF r.body.error # <<>> THEN r.body.error
                    ELSE <<"Failed to regenerate client secret">>,
        value |-> Undefined]
  ELSE [thrown |-> FALSE, message |-> <<>>, value |-> r.body.secret]

\* the upstream holds one registration in each realm when the backend starts
SeededClients ==
  {[id |-> 1, realm |-> "master", clientId |-> "svc-a", name |-> "shared", attributes |-> <<>>],
   [id |-> 2, realm |-> "dev", clientId |-> "svc-a", name |-> "shared", attributes |-> <<>>]}

LedgerInit ==
  /\ TokenInit
  /\ clients = SeededClients
  /\ nextId = Cardinality(SeededClients) + 1
  /\ resp = NoResp
  /\ TableInit
  /\ ServiceInit

SeededIds == {c.id : c \in SeededClients}

LedgerLifetimes == {600}

\* token request, admin request, generated secret, returned value, insert
RegenerateOutcomes ==
  {<<FALSE, TRUE, Undefined, Undefined, TRUE>>, <<TRUE, FALSE, Undefined, Undefined, TRUE>>,
   <<TRUE, TRUE, Some(<<"a", "b", "c", "d", "e">>), Some(<<"a", "b", "c", "d", "e">>), TRUE>>,
   <<TRUE, TRUE, Some(<<"a", "b", "c", "d", "e">>), Some(<<"a", "b", "c", "d", "e">>), FALSE>>}

\* the clock moves on after an insert: created_at is all the ledger keeps of it
LedgerTick ==
  /\ ledger # <<>>
  /\ ledger[Len(ledger)].created_at = now
  /\ Tick
  /\ UNCHANGED <<registryVars, ledgerVars, serviceVars>>

\* rotations of one actor, over the secrets the upstream may generate
SecretOutcomes ==
  {<<TRUE, TRUE, s, s, TRUE>> : s \in SecretValues \ {Undefined}}
    \cup {<<TRUE, TRUE, Some(<<"a", "b", "c", "d", "e">>), Undefined, TRUE>>}

SecretIdentities == {i \in IdentityResults : i.ref = Some("u1")}

SecretNext ==
  /\ \/ \E identity \in SecretIdentities, id \in SeededIds, r \in OptRealms, o \in SecretOutcomes,
          e \in LedgerLifetimes :
          RegenerateSecretRoute(identity, id, r, o[1], e, o[2], o[3], o[4], o[5])
     \/ \E identity \in SecretIdentities, id \in SeededIds, r \in OptRealms :
          SecretHistoryRoute(identity, id, r, TRUE)
  /\ UNCHANGED <<now, pc, response, lastRet, authRequests, serviceVars>>

LedgerNext ==
  \/ /\ \/ \E identity \in IdentityResults, id \in SeededIds, r \in OptRealms, o \in RegenerateOutcomes,
             e \in LedgerLifetimes :
             RegenerateSecretRoute(identity, id, r, o[1], e, o[2], o[3], o[4], o[5])
        \/ \E identity \in IdentityResults, id \in SeededIds, r \in OptRealms, dbOk \in BOOLEAN :
             SecretHistoryRoute(identity, id, r, dbOk)
     /\ UNCHANGED <<now, pc, response, lastRet, authRequests, serviceVars>>
  \/ LedgerTick

\* restarts of the backend and deletions of clients, around the rotations
\* and history queries of one actor
RestartOutcomes == {o \in RegenerateOutcomes : o[1] /\ o[2]}

RestartNext ==
  /\ \/ \E identity \in SecretIdentities, id \in SeededIds, r \in OptRealms, o \in RestartOutcomes,
          e \in LedgerLifetimes :
          RegenerateSecretRoute(identity, id, r, o[1], e, o[2], o[3], o[4], o[5])
     \/ \E identity \in SecretIdentities, id \in SeededIds, r \in OptRealms :
          SecretHistoryRoute(identity, id, r, TRUE)
     \/ \E id \in SeededIds, r \in OptRealms, o \in UpstreamOutcomes, e \in LedgerLifetimes :
          DeleteClientRoute(id, r, o[1], e, o[2]) /\ UNCHANGED ledgerVars
     \/ CreateRouter
  /\ UNCHANGED <<now, pc, response, lastRet, authRequests, serviceVars>>

\* ---------------------------------------------------- concurrent rotations
\* POST /clients/:id/secret as one request among others, in the steps its
\* awaits cut it into: the handler runs up to the insert, the database runs
\* the insert, the handler resumes and answers

\* a handler of POST /clients/:id/secret suspended at an await
RotationHandler(stage, req, realm, id, createdBy, returned, sent) ==
  [route |-> "regenerate", stage |-> stage, req |-> req, realm |-> realm, id |-> id,
   createdBy |-> createdBy, returned |-> returned, sent |-> sent]

\* request q up to the insert: the rotation in the upstream, then getIdentity
RegenerateSecretBegin(q, identity, id, queryRealm, tokOk, expires_in, upOk, generated, returned) ==
  LET realm == QueryRealm(queryRealm)
      req == [NoReq EXCEPT !.identity = identity.ref, !.realm = queryRealm, !.id = id]
      post == <<[op |-> "regenerateClientSecret", realm |-> realm]>>
      Answer(message, sent, up) ==
        resp' = [route |-> "regenerate", status |-> 500,
                 body |-> [NoBody EXCEPT !.error = message], req |-> req,
                 sent |-> sent, upstream |-> up, db |-> "none"]
  IN
  /\ inflight[q] = NoHandler
  /\ UNCHANGED <<clients, nextId, hasTable, ledger, nextRowId, appConfig, page, signedIn>>
  /\ AcquireToken(tokOk, expires_in)
  /\ IF ~tokOk
     THEN /\ Answer(AuthFailedMessage("token"), TokenRequests, "none")
          /\ UNCHANGED <<secrets, inflight>>
     ELSE IF ~upOk
     THEN /\ Answer(RegenerateFailedMessage("unavailable"), TokenRequests \o post, "unavailable")
          /\ UNCHANGED <<secrets, inflight>>
     ELSE IF ~(\E c \in InRealm(realm) : c.id = id)
     THEN /\ Answer(RegenerateFailedMessage("notfound"), TokenRequests \o post, "notfound")
          /\ UNCHANGED <<secrets, inflight>>
     ELSE /\ secrets' = (id :> generated) @@ secrets
          /\ IF identity.throws
             THEN /\ Answer(<<"identity">>, TokenRequests \o post, "ok")
                  /\ UNCHANGED inflight
             ELSE /\ inflight' = [inflight EXCEPT ![q] =
                                    RotationHandler("insert", req, realm, id, Creator(identity),
                                                    returned, TokenRequests \o post)]
                  /\ UNCHANGED resp

\* await knex('keycloak_client_secret_history').insert({...}) of request q
RegenerateSecretInsert(q, dbOk) ==
  LET h == inflight[q]
  IN
  /\ h.route = "regenerate"
  /\ h.stage = "insert"
  /\ UNCHANGED <<clients, nextId, hasTable, secrets, appConfig, page, signedIn, accessToken, tokenExpiryTime, tokenTable>>
  /\ IF ~dbOk
     THEN /\ resp' = [route |-> "regenerate", status |-> 500,
                      body |-> [NoBody EXCEPT !.error = <<"insert">>], req |-> h.req,
                      sent |-> h.sent, upstream |-> "ok", db |-> "failed"]
          /\ inflight' = [inflight EXCEPT ![q] = NoHandler]
          /\ UNCHANGED <<ledger, nextRowId>>
     ELSE /\ Len(ledger) < MaxRows
          /\ ledger' = Append(ledger, InsertedRow(h.realm, h.id, h.createdBy, Last4(h.returned)))
          /\ nextRowId' = nextRowId + 1
          /\ inflight' = [inflight EXCEPT ![q].stage = "respond"]
          /\ UNCHANGED resp

\* mutant: the secret is returned without waiting for the insert
RegenerateSecretRespondEarly(q) ==
  LET h == inflight[q]
  IN
  /\ h.route = "regenerate"
  /\ h.stage = "insert"
  /\ resp' = [route |-> "regenerate", status |-> 200,
              body |-> [NoBody EXCEPT !.secret = h.returned], req |-> h.req,
              sent |-> h.sent, upstream |-> "ok", db |-> "none"]
  /\ inflight' = [inflight EXCEPT ![q] = NoHandler]
  /\ UNCHANGED <<clients, nextId, ledgerVars, appConfig, page, signedIn, accessToken, tokenExpiryTime, tokenTable>>

\* response.json({ secret }) of request q
RegenerateSecretRespond(q) ==
  LET h == inflight[q]
  IN
  /\ h.route = "regenerate"
  /\ h.stage = "respond"
  /\ resp' = [route |-> "regenerate", status |-> 200,
              body |-> [NoBody EXCEPT !.secret = h.returned], req |-> h.req,
              sent |-> h.sent, upstream |-> "ok", db |-> "written"]
  /\ inflight' = [inflight EXCEPT ![q] = NoHandler]
  /\ UNCHANGED <<clients, nextId, ledgerVars, appConfig, page, signedIn, accessToken, tokenExpiryTime, tokenTable>>

\* token request, admin request, generated secret, returned value
RotationOutcomes == {<<o[1], o[2], o[3], o[4]>> : o \in RegenerateOutcomes}

\* the caller of the rotations: one actor, or a getIdentity that throws
RotationIdentities == {i \in IdentityResults : i.throws \/ i.ref = Some("u1")}

RotationsNext ==
  \/ /\ \/ \E q \in Requests, identity \in RotationIdentities, id \in SeededIds, r \in OptRealms,
             o \in RotationOutcomes, e \in LedgerLifetimes :
             RegenerateSecretBegin(q, identity, id, r, o[1], e, o[2], o[3], o[4])
        \/ \E q \in Requests, dbOk \in BOOLEAN : RegenerateSecretInsert(q, dbOk)
        \/ \E q \in Requests : RegenerateSecretRespond(q)
     /\ UNCHANGED <<now, pc, response, lastRet, authRequests>>
  \/ LedgerTick

\* ------------------------------------------------------- concurrent claims
\* POST /take-ownership as one request among others: the read of the upstream,
\* the write to it and the answer are separate steps, with no transaction
\* around them

\* a handler of POST /take-ownership suspended between its steps; match is
\* the registration as the lookup read it
ClaimHandler(stage, req, actor, match, sent) ==
  [route |-> "take-ownership", stage |-> stage, req |-> req, actor |-> actor, match |-> match,
   sent |-> sent]

\* mutant: a registration that is claimed already keeps its claimant
AppliedClaimFirstWins(stored, snapshot, actor, t) ==
  IF "inheritedBy" \in DOMAIN stored.attributes THEN stored
  ELSE UpdatedClient(stored, [name |-> Undefined,
                              attributes |-> Some(ClaimAttributes(snapshot.attributes, actor, t))])

\* the registration after the update of a claim: the claim attributes, made
\* from the registration as it was read, are set on the stored registration
AppliedClaim(stored, snapshot, actor, t) ==
  UpdatedClient(stored, [name |-> Undefined,
                         attributes |-> Some(ClaimAttributes(snapshot.attributes, actor, t))])

\* request q up to the update: identify, then look the registration up
TakeOwnershipLookup(q, identity, body, outcome, expires_in) ==
  LET req == [NoReq EXCEPT !.identity = identity.ref, !.realm = Some(body.realm),
                           !.clientId = body.clientId, !.name = body.name]
      lookup == <<[op |-> "listClients", realm |-> body.realm]>>
      Answer(status, code, list, sent, up) ==
        resp' = [route |-> "take-ownership", status |-> status,
                 body |-> [NoBody EXCEPT !.error = <<code>>, !.code = code, !.clients = list],
                 req |-> req, sent |-> sent, upstream |-> up, db |-> "none"]
      matches == Matches(body.realm, body)
  IN
  /\ inflight[q] = NoHandler
  /\ UNCHANGED <<clients, nextId, appConfig, page, signedIn>>
  /\ IF identity.throws \/ identity.ref = Undefined
     THEN /\ outcome = "ok"
          /\ Answer(401, "UNAUTHENTICATED", {}, <<>>, "none")
          /\ UNCHANGED <<inflight, accessToken, tokenExpiryTime, tokenTable>>
     ELSE /\ AcquireToken(outcome # "tokenFail", expires_in)
          /\ IF outcome = "tokenFail"
             THEN Answer(500, "AUTH_FAILURE", {}, TokenRequests, "none") /\ UNCHANGED inflight
             ELSE IF outcome = "lookupFail"
             THEN /\ Answer(500, "UPSTREAM_UNAVAILABLE", {}, TokenRequests \o lookup, "unavailable")
                  /\ UNCHANGED inflight
             ELSE IF matches = {}
             THEN Answer(404, "NOT_FOUND", {}, TokenRequests \o lookup, "ok") /\ UNCHANGED inflight
             ELSE IF Cardinality(matches) > 1
             THEN /\ Answer(409, "AMBIGUOUS_NAME", {Candidate(c) : c \in matches},
                            TokenRequests \o lookup, "ok")
                  /\ UNCHANGED inflight
             ELSE /\ inflight' = [inflight EXCEPT ![q] =
                                    ClaimHandler("update", req, Val(identity.ref),
                                                 CHOOSE c \in matches : TRUE,
                                                 TokenRequests \o lookup)]
                  /\ UNCHANGED resp

\* the update of request q reaches the upstream, or fails
TakeOwnershipUpdate(q, upOk) ==
  LET h == inflight[q]
      put == <<[op |-> "updateClient", realm |-> h.match.realm]>>
  IN
  /\ h.route = "take-ownership"
  /\ h.stage = "update"
  /\ UNCHANGED <<nextId, appConfig, page, signedIn, accessToken, tokenExpiryTime, tokenTable>>
  /\ IF ~upOk
     THEN /\ resp' = [route |-> "take-ownership", status |-> 500,
                      body |-> [NoBody EXCEPT !.error = <<"UPSTREAM_UNAVAILABLE">>,
                                              !.code = "UPSTREAM_UNAVAILABLE"],
                      req |-> h.req, sent |-> h.sent \o put, upstream |-> "unavailable",
                      db |-> "none"]
          /\ inflight' = [inflight EXCEPT ![q] = NoHandler]
          /\ UNCHANGED clients
     ELSE /\ clients' = {IF c.id = h.match.id THEN AppliedClaim(c, h.match, h.actor, now) ELSE c :
                           c \in clients}
          /\ inflight' = [inflight EXCEPT ![q].stage = "respond", ![q].sent = h.sent \o put]
          /\ UNCHANGED resp

\* request q answers with the registration as its update left it
TakeOwnershipRespond(q) ==
  LET h == inflight[q]
  IN
  /\ h.route = "take-ownership"
  /\ h.stage = "respond"
  /\ resp' = [route |-> "take-ownership", status |-> 200,
              body |-> [NoBody EXCEPT !.clients = {AppliedClaim(h.match, h.match, h.actor, now)}],
              req |-> h.req, sent |-> h.sent, upstream |-> "ok", db |-> "none"]
  /\ inflight' = [inflight EXCEPT ![q] = NoHandler]
  /\ UNCHANGED <<clients, nextId, appConfig, page, signedIn, accessToken, tokenExpiryTime, tokenTable>>

\* the claims all name one registration, by its clientId
RaceBodies == {b \in ClaimBodies : b.realm = "master" /\ b.clientId = Some("svc-a")}

RaceOutcomes == {"ok", "lookupFail"}

ClaimRaceNext ==
  /\ \/ \E q \in Requests, identity \in ClaimIdentities, body \in RaceBodies, o \in RaceOutcomes,
          e \in LedgerLifetimes : TakeOwnershipLookup(q, identity, body, o, e)
     \/ \E q \in Requests, upOk \in BOOLEAN : TakeOwnershipUpdate(q, upOk)
     \/ \E q \in Requests : TakeOwnershipRespond(q)
  /\ UNCHANGED <<now, pc, response, lastRet, authRequests, ledgerVars>>

\* ----------------------------------------------------------- flow settings
\* create requests that carry each flow setting as true, as false or not at all
SettingsBodies ==
  {[realm |-> Undefined, clientId |-> "svc-a", name |-> Undefined, attributes |-> Undefined,
    directAccessGrantsEnabled |-> x[1], implicitFlowEnabled |-> x[2], standardFlowEnabled |-> x[3]] :
     x \in {Undefined, Some(TRUE), Some(FALSE)} \X {Undefined, Some(TRUE), Some(FALSE)}
             \X {Undefined, Some(TRUE), Some(FALSE)}}

SettingsNext ==
  /\ \/ \E identity \in SecretIdentities, body \in SettingsBodies, o \in UpstreamOutcomes,
          e \in RegistryLifetimes : CreateClientRoute(identity, body, o[1], e, o[2])
     \/ \E id \in Ids, o \in UpstreamOutcomes, e \in RegistryLifetimes :
          DeleteClientRoute(id, Undefined, o[1], e, o[2])
  /\ UNCHANGED <<now, pc, response, lastRet, authRequests, ledgerVars, serviceVars>>

\* ------------------------------------------------------------- error kinds
\* the outcomes of the token request and of the admin request: the upstream
\* answers, is unreachable or answers 5xx, or answers 401
ErrorOutcomes == {<<FALSE, "ok">>, <<TRUE, "ok">>, <<TRUE, "unavailable">>, <<TRUE, "unauthorized">>}

ErrorBodies == {[realm |-> r, name |-> Some("Shared"), attributes |-> Undefined] : r \in OptRealms}

ErrorsNext ==
  /\ \/ \E slot \in Slots : Provision(slot, "shared", <<>>)
     \/ \E clientId \in ClientIds, r \in OptRealms, o \in ErrorOutcomes, e \in RegistryLifetimes :
          GetClientRoute(clientId, r, o[1], e, o[2])
     \/ \E id \in Ids, body \in ErrorBodies, o \in ErrorOutcomes, e \in RegistryLifetimes :
          UpdateClientRoute(id, body, o[1], e, o[2])
  /\ UNCHANGED <<now, pc, response, lastRet, authRequests, ledgerVars, serviceVars>>

\* ------------------------------------------------- all registry operations
\* mutant: the admin request is sent whether or not there is a token
AdminRequestUnconditional(tokOk, request) == request

\* const token = await this.getAccessToken() stands before the try with the
\* admin request: a failed getAccessToken leaves the request unsent
AdminRequest(tokOk, request) == IF tokOk THEN request ELSE <<>>

ListFailedMessage(cause) == <<"Failed to list clients: ", cause>>
GetSecretFailedMessage(cause) == <<"Failed to get client secret: ", cause>>

\* GET /clients
ListClientsRoute(queryRealm, tokOk, expires_in, upOk) ==
  LET realm == QueryRealm(queryRealm)
      req == [NoReq EXCEPT !.realm = queryRealm]
      get == <<[op |-> "listClients", realm |-> realm]>>
      Answer(status, message, list, up) ==
        resp' = [route |-> "list", status |-> status,
                 body |-> [NoBody EXCEPT !.error = message, !.clients = list], req |-> req,
                 sent |-> TokenRequests \o AdminRequest(tokOk, get), upstream |-> up, db |-> "none"]
  IN
  /\ UNCHANGED <<clients, nextId>>
  /\ AcquireToken(tokOk, expires_in)
  /\ IF ~tokOk THEN Answer(500, AuthFailedMessage("token"), {}, "none")
     ELSE IF ~upOk THEN Answer(500, ListFailedMessage("unavailable"), {}, "unavailable")
     ELSE Answer(200, <<>>, InRealm(realm), "ok")

\* GET /clients/:id/secret
GetClientSecretRoute(id, queryRealm, tokOk, expires_in, upOk) ==
  LET realm == QueryRealm(queryRealm)
      req == [NoReq EXCEPT !.realm = queryRealm, !.id = id]
      get == <<[op |-> "getClientSecret", realm |-> realm]>>
      Answer(status, message, value, up) ==
        resp' = [route |-> "secret", status |-> status,
                 body |-> [NoBody EXCEPT !.error = message, !.secret = value], req |-> req,
                 sent |-> TokenRequests \o AdminRequest(tokOk, get), upstream |-> up, db |-> "none"]
  IN
  /\ UNCHANGED <<clients, nextId>>
  /\ AcquireToken(tokOk, expires_in)
  /\ IF ~tokOk THEN Answer(500, AuthFailedMessage("token"), Undefined, "none")
     ELSE IF ~upOk THEN Answer(500, GetSecretFailedMessage("unavailable"), Undefined, "unavailable")
     ELSE IF ~(\E c \in InRealm(realm) : c.id = id)
     THEN Answer(500, GetSecretFailedMessage("notfound"), Undefined, "notfound")
     ELSE Answer(200, <<>>, IF id \in DOMAIN secrets THEN secrets[id] ELSE Undefined, "ok")

OpsBodies ==
  {[realm |-> r, clientId |-> "svc-a", name |-> Undefined, attributes |-> Undefined] : r \in OptRealms}

OpsOutcomes == {o \in ErrorOutcomes : o[2] # "unauthorized"}

OpsNext ==
  /\ \/ /\ \/ \E identity \in SecretIdentities, body \in OpsBodies, o \in UpstreamOutcomes,
                e \in LedgerLifetimes : CreateClientRoute(identity, body, o[1], e, o[2])
           \/ \E r \in OptRealms, o \in OpsOutcomes, e \in LedgerLifetimes :
                GetClientRoute("svc-a", r, o[1], e, o[2])
           \/ \E r \in OptRealms, o \in UpstreamOutcomes, e \in LedgerLifetimes :
                ListClientsRoute(r, o[1], e, o[2])
           \/ \E id \in Ids, body \in ErrorBodies, o \in OpsOutcomes, e \in LedgerLifetimes :
                UpdateClientRoute(id, body, o[1], e, o[2])
           \/ \E id \in Ids, r \in OptRealms, o \in UpstreamOutcomes, e \in LedgerLifetimes :
                DeleteClientRoute(id, r, o[1], e, o[2])
           \/ \E id \in Ids, r \in OptRealms, o \in UpstreamOutcomes, e \in LedgerLifetimes :
                GetClientSecretRoute(id, r, o[1], e, o[2])
        /\ UNCHANGED ledgerVars
     \/ \E identity \in SecretIdentities, id \in Ids, r \in OptRealms, o \in RegenerateOutcomes,
          e \in LedgerLifetimes : RegenerateSecretRoute(identity, id, r, o[1], e, o[2], o[3], o[4], o[5])
  /\ UNCHANGED <<now, pc, response, lastRet, authRequests, serviceVars>>

\* -------------------------------------------------------------- read routes
\* rotations, and around them the routes that only read
ReadsNext ==
  /\ \/ /\ \/ \E r \in OptRealms, o \in OpsOutcomes, e \in LedgerLifetimes :
                GetClientRoute("svc-a", r, o[1], e, o[2])
           \/ \E r \in OptRealms, o \in UpstreamOutcomes, e \in LedgerLifetimes :
                ListClientsRoute(r, o[1], e, o[2])
           \/ \E id \in SeededIds, r \in OptRealms, o \in UpstreamOutcomes, e \in LedgerLifetimes :
                GetClientSecretRoute(id, r, o[1], e, o[2])
        /\ UNCHANGED ledgerVars
     \/ \E identity \in SecretIdentities, id \in SeededIds, r \in OptRealms, dbOk \in BOOLEAN :
          SecretHistoryRoute(identity, id, r, dbOk)
     \/ \E identity \in SecretIdentities, id \in SeededIds, r \in OptRealms, o \in RestartOutcomes,
          e \in LedgerLifetimes : RegenerateSecretRoute(identity, id, r, o[1], e, o[2], o[3], o[4], o[5])
  /\ UNCHANGED <<now, pc, response, lastRet, authRequests, serviceVars>>

\* ------------------------------------------------- My Keycloak Clients page
\* String.prototype.trim() on the inputs typed into Client ID or Name
Trim(str) == IF str = " " THEN "" ELSE IF str = " svc-a" THEN "svc-a" ELSE str

\* KeycloakApiClient.listMyClients: the parsed body of an ok response, or a
\* thrown error
ListMyClients(r) ==
  IF ~ResponseOk(r.status)
  THEN [thrown |-> TRUE, message |-> <<"Failed to list my clients">>, value |-> {}]
  ELSE [thrown |-> FALSE, message |-> <<>>, value |-> r.body.clients]

\* the signed-in user of the page, and the realm the page is fixed to
PageIdentity == [throws |-> FALSE, ref |-> Some("u1")]
PageRealm == "master"

\* what the handler notes of one API call
Call(name, r) == [call |-> name, ok |-> ~r.thrown, code |-> IF name = "list" THEN "" ELSE r.code]

\* onClick of Take Ownership, up to its first await
PressTakeOwnership(input) ==
  /\ page.pc = "idle"
  /\ page' = IF Trim(input) = ""
             THEN [page EXCEPT !.claimInput = input]
             ELSE [page EXCEPT !.claimInput = input, !.calls = <<>>, !.claimCandidates = {},
                               !.pc = "claimByClientId"]
  /\ UNCHANGED <<registryVars, accessToken, tokenExpiryTime, tokenTable>>

\* await keycloakApi.takeOwnership(realm, { clientId: claimInput.trim() })
ClaimByClientId(outcome, expires_in) ==
  /\ page.pc = "claimByClientId"
  /\ TakeOwnershipRoute(PageIdentity,
                        [realm |-> PageRealm, clientId |-> Some(Trim(page.claimInput)),
                         name |-> Undefined], outcome, expires_in)
  /\ LET r == TakeOwnership(resp')
     IN page' = [page EXCEPT !.calls = Append(@, Call("clientId", r)),
                             !.pc = IF r.thrown THEN "claimByName" ELSE "refreshFirst"]

\* await keycloakApi.listMyClients(realm) of the outer try; its failure is
\* caught by the outer catch like a failure of the claim
RefreshFirst(tokOk, expires_in, upOk) ==
  /\ page.pc = "refreshFirst"
  /\ MyClientsRoute(PageIdentity, Some(PageRealm), tokOk, expires_in, upOk)
  /\ LET r == ListMyClients(resp')
     IN page' = IF r.thrown
                THEN [page EXCEPT !.calls = Append(@, Call("list", r)), !.pc = "claimByName"]
                ELSE [page EXCEPT !.calls = Append(@, Call("list", r)), !.pc = "idle",
                                  !.clients = r.value, !.claimInput = ""]

\* await keycloakApi.takeOwnership(realm, { name: claimInput.trim() }) in the
\* outer catch, and the inner catch of its failure
ClaimByName(outcome, expires_in) ==
  /\ page.pc = "claimByName"
  /\ TakeOwnershipRoute(PageIdentity,
                        [realm |-> PageRealm, clientId |-> Undefined,
                         name |-> Some(Trim(page.claimInput))], outcome, expires_in)
  /\ LET r == TakeOwnership(resp')
     IN page' = IF ~r.thrown
                THEN [page EXCEPT !.calls = Append(@, Call("name", r)), !.pc = "refreshSecond"]
                ELSE IF r.code = "AMBIGUOUS_NAME"
                THEN [page EXCEPT !.calls = Append(@, Call("name", r)), !.pc = "idle",
                                  !.claimCandidates = r.candidates, !.error = Undefined]
                ELSE [page EXCEPT !.calls = Append(@, Call("name", r)), !.pc = "idle",
                                  !.error = Some(r.message)]

\* await keycloakApi.listMyClients(realm) of the inner try; its failure is
\* caught by the inner catch
RefreshSecond(tokOk, expires_in, upOk) ==
  /\ page.pc = "refreshSecond"
  /\ MyClientsRoute(PageIdentity, Some(PageRealm), tokOk, expires_in, upOk)
  /\ LET r == ListMyClients(resp')
     IN page' = IF r.thrown
                THEN [page EXCEPT !.calls = Append(@, Call("list", r)), !.pc = "idle",
                                  !.error = Some(r.message)]
                ELSE [page EXCEPT !.calls = Append(@, Call("list", r)), !.pc = "idle",
                                  !.clients = r.value, !.claimInput = ""]

\* what the user types, and the registrations of the realm of the page
PageInputs == {"", " ", "svc-a", " svc-a", "shared"}
PageSlots == {s \in Slots : s[1] = Undefined}
PageShapes == {<<"shared", <<>>>>, <<"svc-a", <<>>>>}
PageOutcomes == {"ok", "lookupFail"}

PageNext ==
  /\ \/ /\ \E slot \in PageSlots, x \in PageShapes : Provision(slot, x[1], x[2])
        /\ page.pc = "idle"
        /\ UNCHANGED page
     \/ \E input \in PageInputs : PressTakeOwnership(input)
     \/ \E o \in PageOutcomes, e \in LedgerLifetimes : ClaimByClientId(o, e)
     \/ \E o \in UpstreamOutcomes, e \in LedgerLifetimes : RefreshFirst(o[1], e, o[2])
     \/ \E o \in PageOutcomes, e \in LedgerLifetimes : ClaimByName(o, e)
     \/ \E o \in UpstreamOutcomes, e \in LedgerLifetimes : RefreshSecond(o[1], e, o[2])
  /\ UNCHANGED <<now, pc, response, lastRet, authRequests, ledgerVars, appConfig, inflight, signedIn>>

\* ---------------------------------------------------------- sign-in resolver
\* strings are sequences of characters
LowerCaseLetters == {"a", "b", "k", "l", "o"}
ToLowerCaseChar(ch) == IF ch = "A" THEN "a" ELSE IF ch = "K" THEN "k" ELSE ch

\* String.prototype.toLowerCase()
ToLowerCase(str) == [i \in 1..Len(str) |-> ToLowerCaseChar(str[i])]

RECURSIVE StripLeading(_, _)
\* the string without its leading characters of the set
StripLeading(str, set) ==
  IF str # <<>> /\ Head(str) \in set THEN StripLeading(Tail(str), set) ELSE str

RECURSIVE StripTrailing(_, _)
StripTrailing(str, set) ==
  IF str # <<>> /\ str[Len(str)] \in set THEN StripTrailing(SubSeq(str, 1, Len(str) - 1), set)
  ELSE str

\* String.prototype.trim()
TrimSpaces(str) == StripTrailing(StripLeading(str, {" "}), {" "})

\* the characters [a-z0-9._-] of an entity name, and the others in use
ValidNameChars == LowerCaseLetters \cup {".", "_", "-"}
InvalidNameChars == {" ", "!", "A", "K"}

RECURSIVE ReplaceInvalidRuns(_)
\* .replace(/[^a-z0-9._-]+/g, '-'): every run of other characters becomes one '-'
ReplaceInvalidRuns(str) ==
  IF str = <<>> THEN <<>>
  ELSE IF Head(str) \in ValidNameChars THEN <<Head(str)>> \o ReplaceInvalidRuns(Tail(str))
  ELSE <<"-">> \o ReplaceInvalidRuns(StripLeading(str, InvalidNameChars))

SlugMaxLength == 63

\* String.prototype.slice(0, n)
SliceFirst(str, n) == SubSeq(str, 1, IF Len(str) < n THEN Len(str) ELSE n)

\* profile.displayName || profile.username || profile.login
BaseName(profile) ==
  IF profile.displayName # Undefined /\ Val(profile.displayName) # <<>> THEN profile.displayName
  ELSE IF profile.username # Undefined /\ Val(profile.username) # <<>> THEN profile.username
  ELSE IF profile.login # Undefined /\ Val(profile.login) # <<>> THEN profile.login
  ELSE Undefined

\* base.toLowerCase().trim().replace(...).replace(/^-+|-+$/g, '').slice(0, 63) || 'user'
Slug(base) ==
  LET cut == SliceFirst(StripTrailing(StripLeading(
                 ReplaceInvalidRuns(TrimSpaces(ToLowerCase(base))), {"-"}), {"-"}), SlugMaxLength)
  IN IF cut # <<>> THEN cut ELSE <<"u", "s", "e", "r">>

\* stringifyEntityRef({ kind: 'User', name: slug, namespace: DEFAULT_NAMESPACE })
StringifyUserRef(slug) == <<"user:default/">> \o slug

\* signInResolver: a profile without a base name is refused, every other
\* sign-in gets a token whose sub is the entity ref made from the slug
SignIn(profile) ==
  /\ BaseName(profile) # Undefined
  /\ signedIn' = signedIn \cup {[account |-> Val(profile.username),
                                 sub |-> StringifyUserRef(Slug(Val(BaseName(profile))))]}
  /\ UNCHANGED <<tokenVars, registryVars, ledgerVars, appConfig, inflight, page>>

\* GitHub accounts: the login is the account, the display name is free text
\* the account's owner sets
GitHubLogins == {<<"a", "l">>, <<"b", "o">>, <<"a", "l", "-", "k">>}
DisplayNames ==
  {Undefined, Some(<<>>), Some(<<"A", "l", " ", "K">>), Some(<<" ", "a", "l", "!", "!", "k">>),
   Some(<<"b", "o">>), Some(<<"!">>)}
Profiles == [displayName : DisplayNames, username : {Some(l) : l \in GitHubLogins}, login : {Undefined}]

SignInNext == \E profile \in Profiles : SignIn(profile)

\* -------------------------------------------------------------- grant type
\* configurations with and without keycloak.username and keycloak.password
AppConfigs == [username : {Undefined, Some("alice")}, password : {Undefined, Some("pw")}]

GrantInit ==
  /\ TokenInit
  /\ RegistryInit
  /\ TableInit
  /\ appConfig \in AppConfigs
  /\ inflight = [q \in Requests |-> NoHandler]
  /\ page = NoPage
  /\ signedIn = {}

GrantNext ==
  /\ \/ /\ \/ \E slot \in Slots : Provision(slot, "shared", <<>>)
           \/ \E r \in OptRealms, o \in UpstreamOutcomes, e \in LedgerLifetimes :
                ListClientsRoute(r, o[1], e, o[2])
        /\ UNCHANGED ledgerVars
     \/ CreateRouter
  /\ UNCHANGED <<now, pc, response, lastRet, authRequests, serviceVars>>

SpecToken == Init /\ [][TokenNext /\ UNCHANGED <<registryVars, ledgerVars, serviceVars>>]_vars
SpecRegistry == Init /\ [][RegistryNext]_vars
SpecClaim == Init /\ [][ClaimNext]_vars
SpecLedger == LedgerInit /\ [][LedgerNext]_vars
SpecSecret == LedgerInit /\ [][SecretNext]_vars
SpecRestart == LedgerInit /\ [][RestartNext]_vars
SpecErrors == Init /\ [][ErrorsNext]_vars
SpecOps == Init /\ [][OpsNext]_vars
SpecRotations == LedgerInit /\ [][RotationsNext]_vars
SpecClaimRace == LedgerInit /\ [][ClaimRaceNext]_vars
SpecSettings == Init /\ [][SettingsNext]_vars
SpecReads == LedgerInit /\ [][ReadsNext]_vars
SpecPage == Init /\ [][PageNext]_vars
SpecSignIn == Init /\ [][SignInNext]_vars
SpecGrant == GrantInit /\ [][GrantNext]_vars

\* ------------------------------------------------------------------ claims
\* the realm a request addresses: the one it names, master when it names none
RequestedRealm(req) == IF req.realm # Undefined THEN Val(req.realm) ELSE "master"

HasAttribute(c, k, v) == k \in DOMAIN c.attributes /\ c.attributes[k] = v

\* a fetch has succeeded and the cached token has not reached its expiresAt
WithinValidityWindow ==
  /\ accessToken # Undefined
  /\ tokenExpiryTime # Undefined
  /\ now < Val(tokenExpiryTime)

\* C1: while the cached token is within its validity window, a getToken()
\* call that starts returns the cached token at once and no upstream
\* authentication request is sent.
C1_CachedTokenNoRequest ==
  [][WithinValidityWindow =>
       /\ authRequests' = authRequests
       /\ \A c \in Callers : GetAccessTokenStart(c) =>
            /\ pc' = pc
            /\ lastRet'.kind = "token" /\ lastRet'.cached /\ lastRet'.caller = c
            /\ lastRet'.token = accessToken]_vars

C1_Witness ==
  /\ lastRet.kind = "token" /\ lastRet.cached
  /\ lastRet.at > tokenTable[Val(lastRet.token)].issuedAt
  /\ authRequests = 1

\* C2: at most one upstream token request is in flight at any time.
C2_SingleFlight == InFlight <= 1

\* the upstream lifetime a token has left at instant t
RealRemaining(token, t) ==
  tokenTable[token].issuedAt + tokenTable[token].expires_in * 1000 - t

\* C3: every token getToken() returns has, when it is returned, a cached
\* expiresAt in the future and at least the safety margin of upstream
\* lifetime left.
C3_ReturnedTokenHasMargin ==
  lastRet.kind = "token" =>
    /\ Val(lastRet.expiry) > lastRet.at
    /\ RealRemaining(Val(lastRet.token), lastRet.at) >= SafetyMarginSeconds * 1000

\* C4: after a successful create the registration stored upstream carries
\* attributes.createdBy = actor.
C4_CreateStoresCreator ==
  (resp.route = "create" /\ resp.status = 201 /\ resp.req.identity # Undefined) =>
    \E c \in InRealm(RequestedRealm(resp.req)) :
      /\ c.clientId = Val(resp.req.clientId)
      /\ HasAttribute(c, "createdBy", Val(resp.req.identity))

\* C5: a create whose clientId already exists in the realm fails and leaves
\* the upstream registrations as they were; when the upstream answers the
\* create, the failure is the 409 of AlreadyExists.
C5_DuplicateCreateRejected ==
  [][(/\ resp'.route = "create"
      /\ \E c \in InRealm(RequestedRealm(resp'.req)) : c.clientId = Val(resp'.req.clientId))
     => /\ clients' = clients
        /\ resp'.status # 201
        /\ (resp'.upstream \notin {"none", "unavailable"} => resp'.status = 409)]_vars

C5_Witness ==
  /\ resp.route = "create" /\ resp.status = 409
  /\ resp.req.identity = Some("u2")
  /\ \E c \in InRealm(RequestedRealm(resp.req)) : c.clientId = Val(resp.req.clientId)

\* C6: listByCreator(realm, actor) answers exactly the registrations of the
\* realm whose attributes.createdBy is the actor.
C6_ListByCreatorExact ==
  (/\ resp.route = "my-clients" /\ resp.status = 200
   /\ resp.req.identity # Undefined /\ resp.req.realm # Undefined)
  => resp.body.clients =
       {c \in clients : /\ c.realm = Val(resp.req.realm)
                        /\ HasAttribute(c, "createdBy", Val(resp.req.identity))}

C6_Witness ==
  /\ resp.route = "my-clients" /\ resp.status = 200
  /\ resp.req.identity = Some("u1") /\ resp.req.realm = Some("master")
  /\ resp.body.clients # {}
  /\ \E c \in InRealm("master") : c \notin resp.body.clients /\ HasAttribute(c, "createdBy", "u2")

\* the claim the last response answers, as the caller of takeOwnership sees it
ClaimStep == resp'.route = "take-ownership" /\ resp'.req.identity # Undefined
ClaimRealm == Val(resp'.req.realm)
ClaimActor == Val(resp'.req.identity)
ClaimResult == TakeOwnership(resp')
ClaimAnswered == resp'.upstream = "ok"

\* the registrations the selector names before the claim runs
ByClientId == {c \in clients : c.realm = ClaimRealm /\ c.clientId = Val(resp'.req.clientId)}
ByName == {c \in clients : c.realm = ClaimRealm /\ c.name = Val(resp'.req.name)}

ClaimedBy(c, actor) ==
  \E d \in clients' :
    /\ d.id = c.id
    /\ HasAttribute(d, "inheritedBy", actor)
    /\ "inheritedAt" \in DOMAIN d.attributes

\* C7: claim({clientId: X}) fails NotFound and mutates nothing when no
\* registration of the realm has clientId X; when one has, the claim
\* succeeds and the registration has inheritedBy = actor and inheritedAt.
C7_ClaimByClientId ==
  [][(ClaimStep /\ resp'.req.clientId # Undefined) =>
       /\ ByClientId = {} =>
            /\ ClaimResult.thrown
            /\ clients' = clients
            /\ ClaimAnswered => ClaimResult.code = "NOT_FOUND"
       /\ ByClientId # {} =>
            /\ ClaimAnswered => ~ClaimResult.thrown
            /\ ~ClaimResult.thrown => \A c \in ByClientId : ClaimedBy(c, ClaimActor)]_vars

C7_Witness ==
  /\ resp.route = "take-ownership" /\ resp.status = 200 /\ resp.req.clientId = Some("svc-a")
  /\ resp.req.identity = Some("u2")
  /\ \E c \in clients : c.clientId = "svc-a" /\ HasAttribute(c, "inheritedBy", "u2")
  /\ \E c \in clients : c.clientId = "svc-a" /\ c.realm # Val(resp.req.realm)
                        /\ "inheritedBy" \notin DOMAIN c.attributes

\* C8: claim({name: N}) with more than one registration of the realm named
\* N fails Ambiguous, carries exactly the matching registrations as
\* candidates {id, clientId, name}, and mutates nothing.
C8_AmbiguousName ==
  [][(ClaimStep /\ resp'.req.name # Undefined /\ Cardinality(ByName) > 1) =>
       /\ ClaimResult.thrown
       /\ clients' = clients
       /\ ClaimAnswered =>
            /\ ClaimResult.code = "AMBIGUOUS_NAME"
            /\ ClaimResult.candidates =
                 {[id |-> c.id, clientId |-> c.clientId, name |-> c.name] : c \in ByName}]_vars

C8_Witness ==
  /\ resp.route = "take-ownership" /\ resp.req.name = Some("shared")
  /\ TakeOwnership(resp).thrown /\ TakeOwnership(resp).code = "AMBIGUOUS_NAME"
  /\ Cardinality(TakeOwnership(resp).candidates) = 2
  /\ \A c \in clients : "inheritedBy" \notin DOMAIN c.attributes

\* C9: claim({name: N}) matches by case-sensitive equality of name: with no
\* match it fails NotFound and mutates nothing, with exactly one match it
\* claims that registration and no other.
C9_ClaimByName ==
  [][(ClaimStep /\ resp'.req.name # Undefined) =>
       /\ ByName = {} =>
            /\ ClaimResult.thrown
            /\ clients' = clients
            /\ ClaimAnswered => ClaimResult.code = "NOT_FOUND"
       /\ Cardinality(ByName) = 1 =>
            /\ ClaimAnswered => ~ClaimResult.thrown
            /\ ~ClaimResult.thrown =>
                 /\ \A c \in ByName : ClaimedBy(c, ClaimActor)
                 /\ \A c \in clients \ ByName : c \in clients']_vars

C9_Witness ==
  /\ resp.route = "take-ownership" /\ resp.status = 200 /\ resp.req.name = Some("shared")
  /\ \E c \in InRealm(Val(resp.req.realm)) : c.name = "shared" /\ "inheritedBy" \in DOMAIN c.attributes
  /\ \E c \in InRealm(Val(resp.req.realm)) : c.name = "Shared" /\ "inheritedBy" \notin DOMAIN c.attributes

ClaimKeys == {"createdByTag", "inheritedBy", "inheritedAt"}

\* C10: a successful claim sets createdByTag = "inherited", inheritedBy =
\* actor and inheritedAt = now on the matched registration, keeps its
\* createdBy, and changes no other field of it and no other registration.
C10_ClaimFrame ==
  [][(ClaimStep /\ resp'.status = 200) =>
       \E m \in clients, d \in clients' :
         /\ m \in (IF resp'.req.clientId # Undefined THEN ByClientId ELSE ByName)
         /\ ClaimKeys \subseteq DOMAIN d.attributes
         /\ d.attributes["createdByTag"] = "inherited"
         /\ d.attributes["inheritedBy"] = ClaimActor
         /\ d.attributes["inheritedAt"] = ToString(now)
         /\ [d EXCEPT !.attributes = <<>>] = [m EXCEPT !.attributes = <<>>]
         /\ DOMAIN d.attributes = DOMAIN m.attributes \cup ClaimKeys
         /\ \A k \in DOMAIN m.attributes \ ClaimKeys : d.attributes[k] = m.attributes[k]
         /\ clients' \ {d} = clients \ {m}]_vars

C10_Witness ==
  /\ resp.route = "take-ownership" /\ resp.status = 200 /\ resp.req.identity = Some("u2")
  /\ \E c \in resp.body.clients :
       /\ c \in clients
       /\ HasAttribute(c, "createdBy", "u1") /\ HasAttribute(c, "inheritedBy", "u2")
  /\ Cardinality(clients) > 1

\* ----------------------------------------------------------- ledger claims
HistoryAnswered == resp.route = "secret-history" /\ ResponseOk(resp.status)
RowsOf(rows) == {rows[i] : i \in 1..Len(rows)}
\* the rows of the ledger a request for the history of (realm, id, actor) asks for
LedgerRowsFor(req, actor) ==
  {ledger[i] : i \in {j \in 1..Len(ledger) :
                        /\ ledger[j].realm = RequestedRealm(req)
                        /\ ledger[j].client_id = req.id
                        /\ ledger[j].created_by = actor}}

\* C11: a history answered to an actor holds exactly the ledger rows whose
\* realm, client id and author are those of the request, each once and whole
C11_HistoryExact ==
  (HistoryAnswered /\ resp.req.identity # Undefined) =>
    /\ RowsOf(resp.body.rows) = LedgerRowsFor(resp.req, Val(resp.req.identity))
    /\ Len(resp.body.rows) = Cardinality(RowsOf(resp.body.rows))

\* the actor gets a row of theirs while another actor has a row of the same client
C11_Witness ==
  /\ HistoryAnswered
  /\ resp.req.identity # Undefined
  /\ resp.body.rows # <<>>
  /\ \E i \in 1..Len(ledger) :
       /\ ledger[i].realm = RequestedRealm(resp.req)
       /\ ledger[i].client_id = resp.req.id
       /\ ledger[i].created_by \in Actors \ {Val(resp.req.identity)}

\* C12: a history lists its rows newest first by ledger id: a row with a
\* larger id stands before every row with a smaller id
C12_NewestFirstById ==
  HistoryAnswered =>
    \A i, j \in 1..Len(resp.body.rows) :
      i < j => resp.body.rows[i].id > resp.body.rows[j].id

Regenerated == resp.route = "regenerate" /\ resp.db = "written"
WrittenRow == ledger[Len(ledger)]

\* C13: the row a rotation writes never holds the whole secret the rotation
\* returned, whatever the length of the secret
C13_NeverFullSecret ==
  (Regenerated /\ resp.body.secret # Undefined) =>
    WrittenRow.secret_last4 # resp.body.secret

\* l is the last four characters of str (all of str when it is shorter)
IsLast4Of(l, str) ==
  /\ Len(l) = (IF Len(str) < 4 THEN Len(str) ELSE 4)
  /\ \A i \in 1..Len(l) : l[i] = str[Len(str) - Len(l) + i]

\* C14: the secret_last4 of a written row is null, or at most four characters
\* that are the last four of the secret the rotation returned; a history
\* carries rows with null and their cell shows nothing
C14_Last4OrNull ==
  /\ Regenerated =>
       \/ WrittenRow.secret_last4 = Undefined
       \/ /\ resp.body.secret # Undefined
          /\ Len(Val(WrittenRow.secret_last4)) <= 4
          /\ IsLast4Of(Val(WrittenRow.secret_last4), Val(resp.body.secret))
  /\ HistoryAnswered =>
       \A i \in 1..Len(resp.body.rows) :
         IF resp.body.rows[i].secret_last4 = Undefined
         THEN Last4Cell(resp.body.rows[i]) = <<>>
         ELSE Last4Cell(resp.body.rows[i]) = Val(resp.body.rows[i].secret_last4)

\* a history with a row that has no last4 and a row that has one
C14_Witness ==
  /\ HistoryAnswered
  /\ \E i \in 1..Len(resp.body.rows) : resp.body.rows[i].secret_last4 = Undefined
  /\ \E i \in 1..Len(resp.body.rows) :
       /\ resp.body.rows[i].secret_last4 # Undefined
       /\ Len(Val(resp.body.rows[i].secret_last4)) = 4

\* C15: no step removes or changes a ledger row, and the history of a client
\* that is deleted upstream still holds the rows of the actor
C15_AppendOnly ==
  [][/\ Len(ledger') >= Len(ledger)
     /\ \A i \in 1..Len(ledger) : ledger'[i] = ledger[i]
     /\ (/\ resp'.route = "secret-history"
         /\ ResponseOk(resp'.status)
         /\ ~(\E c \in clients' : c.id = resp'.req.id))
        => RowsOf(resp'.body.rows) =
             {ledger'[i] : i \in {j \in 1..Len(ledger') :
                                    /\ ledger'[j].realm = RequestedRealm(resp'.req)
                                    /\ ledger'[j].client_id = resp'.req.id
                                    /\ ledger'[j].created_by = Val(resp'.req.identity)}}]_vars

\* the backend has restarted, the client is deleted, and its history has a row
C15_Witness ==
  /\ HistoryAnswered
  /\ resp.body.rows # <<>>
  /\ ~(\E c \in clients : c.id = resp.req.id)
  /\ Len(tokenTable) >= 2

RotatedUnlogged == resp.route = "regenerate" /\ resp.upstream = "ok" /\ resp.db = "failed"

\* C16: a rotation done upstream whose ledger row is not written is answered
\* neither as a failure (the caller's regenerateClientSecret does not throw)
\* nor as a plain success (the answer says the row is missing)
C16_PartialSuccess ==
  RotatedUnlogged =>
    /\ ~RegenerateClientSecret(resp).thrown
    /\ resp.body.error # <<>>

\* ------------------------------------------------------ error-handling claims
AttributionKeys == {"createdBy", "createdByTag", "inheritedBy", "inheritedAt"}

\* C17: an update leaves the attribution attributes of every registration as
\* they were, whatever its body
C17_UpdateKeepsAttribution ==
  [][resp'.route = "update" =>
       \A c \in clients : \A d \in clients' :
         d.id = c.id =>
           \A k \in AttributionKeys :
             /\ (k \in DOMAIN c.attributes) = (k \in DOMAIN d.attributes)
             /\ k \in DOMAIN c.attributes => d.attributes[k] = c.attributes[k]]_vars

IdentityRoutes == {"create", "my-clients", "regenerate", "secret-history"}

\* C18: a request of a route that needs the caller, made without an
\* identity, is not answered ok, and no ledger row has an author that is not
\* an actor
C18_NoSubstituteActor ==
  /\ (resp.route \in IdentityRoutes /\ resp.req.identity = Undefined) => ~ResponseOk(resp.status)
  /\ \A i \in 1..Len(ledger) : ledger[i].created_by \in Actors

\* C19: a get is answered 404 exactly when the upstream answered and has no
\* registration of the client id in the realm
C19_NotFoundExactly ==
  resp.route = "get" =>
    (resp.status = 404) =
      (/\ resp.upstream = "ok"
       /\ ~(\E c \in clients : /\ c.realm = RequestedRealm(resp.req)
                               /\ c.clientId = Val(resp.req.clientId)))

\* the token request of the route was sent and nothing after it
TokenFailed(r) == r.sent # <<>> /\ r.sent[Len(r.sent)].op = "token" /\ ~ResponseOk(r.status)
AuthFailed(r) == r.upstream = "unauthorized" \/ TokenFailed(r)
\* what tells one error answer from another: the status and the fixed text
\* of the message, not the cause the message quotes
ErrorKind(r) == <<r.status, Head(r.body.error)>>

\* C20: a request that meets a 401 of the upstream, or gets no admin token,
\* fails, and its answer differs in kind from the answer the same route
\* gives when the upstream is unavailable
C20_AuthFailureDistinct ==
  [][/\ AuthFailed(resp') => ~ResponseOk(resp'.status)
     /\ (AuthFailed(resp) /\ resp'.upstream = "unavailable" /\ resp'.route = resp.route)
          => ErrorKind(resp) # ErrorKind(resp')]_vars

\* -------------------------------------------------- token and request claims
RegistryRoutes == {"create", "get", "list", "update", "delete", "secret", "regenerate"}
AdminAt(sent) == {i \in 1..Len(sent) : sent[i].op # "token"}
TokenAt(sent) == {i \in 1..Len(sent) : sent[i].op = "token"}

\* C21: in every registry operation the token request, if one is sent, comes
\* before the admin request; an admin request is sent only with a token (the
\* valid cached one, or the one just issued); a token request that yields no
\* token is followed by no admin request and the operation fails
C21_TokenBeforeAdmin ==
  [][resp'.route \in RegistryRoutes =>
       /\ \A i \in AdminAt(resp'.sent) : \A j \in TokenAt(resp'.sent) : j < i
       /\ AdminAt(resp'.sent) # {} =>
            IF TokenAt(resp'.sent) = {}
            THEN CacheValid(accessToken, tokenExpiryTime, now)
            ELSE /\ Len(tokenTable') = Len(tokenTable) + 1
                 /\ accessToken' = Some(Len(tokenTable'))
       /\ (TokenAt(resp'.sent) # {} /\ tokenTable' = tokenTable) =>
            /\ AdminAt(resp'.sent) = {}
            /\ ~ResponseOk(resp'.status)]_vars

\* a secret read whose token request failed
C21_Witness ==
  /\ resp.route = "secret"
  /\ TokenAt(resp.sent) # {}
  /\ accessToken = Undefined
  /\ AdminAt(resp.sent) = {}

\* C23: one operation sends the token request at most once and each of its
\* admin requests at most once, whether they succeed or fail
C23_NoRetry ==
  resp.route \in RegistryRoutes =>
    \A i, j \in 1..Len(resp.sent) : i # j => resp.sent[i].op # resp.sent[j].op

\* an operation whose admin request failed, after a token request
C23_Witness ==
  /\ resp.route \in RegistryRoutes
  /\ resp.upstream = "unavailable"
  /\ TokenAt(resp.sent) # {}
  /\ Cardinality(AdminAt(resp.sent)) = 1

\* a getAccessToken() call settles with a failure
RefreshFailed == \E c \in Callers : pc[c] = "requesting" /\ pc'[c] = "idle"

\* C22: when a refresh fails the cache holds no token afterwards
C22_FailedRefreshClears ==
  [][RefreshFailed => accessToken' = Undefined]_vars

\* C24: the token request has the password grant when both a username and a
\* password are configured, and the client-credentials grant otherwise
C24_GrantFollowsConfig ==
  \A i \in TokenAt(resp.sent) :
    resp.sent[i].grant_type =
      IF appConfig.username # Undefined /\ appConfig.password # Undefined
      THEN "password" ELSE "client_credentials"

\* C30: the cached token and expiry change only when a call processes its
\* token response, and then both come from that one response: the token it
\* carries, and the processing time plus its lifetime less the margin; a
\* call that returns the cached token returns it with the expiry stored
\* with it
C30_TokenExpiryPaired ==
  [][/\ (accessToken' # accessToken \/ tokenExpiryTime' # tokenExpiryTime
          \/ \E c \in Callers : pc[c] = "responded" /\ pc'[c] = "idle")
        => \E c \in Callers :
             /\ pc[c] = "responded" /\ pc'[c] = "idle"
             /\ accessToken' = Some(response[c].token)
             /\ tokenExpiryTime' =
                  Some(now + (tokenTable[response[c].token].expires_in - SafetyMarginSeconds) * 1000)
             /\ lastRet'.token = accessToken' /\ lastRet'.expiry = tokenExpiryTime'
     /\ (lastRet' # lastRet /\ lastRet'.cached)
        => lastRet'.token = accessToken /\ lastRet'.expiry = tokenExpiryTime]_vars

\* two refreshes overlapped: both tokens were issued and processed, with
\* different lifetimes, and the token issued first was processed last
C30_Witness ==
  /\ Len(tokenTable) >= 2
  /\ tokenTable[1].expires_in # tokenTable[2].expires_in
  /\ \A c \in Callers : pc[c] = "idle"
  /\ accessToken = Some(1)

\* C26: a rotation that changed the upstream secret and is answered with
\* success adds exactly one row, with action "regenerated", the caller as
\* author and the realm and client id of the request; a rotation that failed
\* upstream adds none
C26_OneRowPerRotation ==
  [][(resp'.route = "regenerate" /\ now' = now) =>
       /\ (resp'.upstream = "ok" /\ ResponseOk(resp'.status)) =>
            /\ Len(ledger') = Len(ledger) + 1
            /\ \A i \in 1..Len(ledger) : ledger'[i] = ledger[i]
            /\ ledger'[Len(ledger')].action = "regenerated"
            /\ resp'.req.identity # Undefined
            /\ ledger'[Len(ledger')].created_by = Val(resp'.req.identity)
            /\ ledger'[Len(ledger')].realm = RequestedRealm(resp'.req)
            /\ ledger'[Len(ledger')].client_id = resp'.req.id
       /\ resp'.upstream # "ok" => ledger' = ledger]_vars

\* C27: a rotation request whose caller is not identified leaves the upstream
\* secrets as they were
C27_IdentityBeforeRotation ==
  [][(resp'.route = "regenerate" /\ resp'.req.identity = Undefined) => secrets' = secrets]_vars

\* C29: a create is answered 409 only when the upstream reported the conflict
C29_ConflictOnly ==
  (resp.route = "create" /\ resp.status = 409) => resp.upstream = "conflict"

\* a create that failed for an unavailable upstream, answered with another status
C29_Witness ==
  /\ resp.route = "create"
  /\ resp.upstream = "unavailable"
  /\ ~ResponseOk(resp.status)
  /\ resp.status # 409

\* ------------------------------------------------------- concurrency claims
\* C28: the ids of the ledger rows strictly increase in insertion order, so
\* they are distinct, and the sequence stays above every id in the table, so
\* none is used again, however the steps of concurrent rotations interleave
C28_RowIdsIncrease ==
  /\ \A i, j \in 1..Len(ledger) : i < j => ledger[i].id < ledger[j].id
  /\ \A i \in 1..Len(ledger) : ledger[i].id < nextRowId

\* two rotations of one client have both inserted their row before either
\* has answered
C28_Witness ==
  /\ Len(ledger) >= 2
  /\ \E p, q \in Requests :
       /\ p # q
       /\ inflight[p].route = "regenerate" /\ inflight[p].stage = "respond"
       /\ inflight[q].route = "regenerate" /\ inflight[q].stage = "respond"
       /\ inflight[p].id = inflight[q].id /\ inflight[p].realm = inflight[q].realm
       /\ \E i, j \in 1..Len(ledger) :
            /\ i # j
            /\ ledger[i].client_id = inflight[p].id /\ ledger[i].realm = inflight[p].realm
            /\ ledger[j].client_id = inflight[p].id /\ ledger[j].realm = inflight[p].realm

InheritedBy(c) ==
  IF "inheritedBy" \in DOMAIN c.attributes THEN Some(c.attributes["inheritedBy"]) ELSE Undefined

\* request q has its update applied in this step
ClaimApplied(q) ==
  /\ inflight[q].route = "take-ownership"
  /\ inflight[q].stage = "update"
  /\ inflight'[q].route = "take-ownership"
  /\ inflight'[q].stage = "respond"

\* C25: the update of a claim makes its actor the inheritedBy of the
\* registration whoever held it before, inheritedBy changes in no other way,
\* and the claim is then answered with success: after any claims, one after
\* another or racing, inheritedBy is the actor of the update applied last
C25_LastWriterWins ==
  [][/\ \A q \in Requests : ClaimApplied(q) =>
          \A c \in clients' : c.id = inflight[q].match.id => InheritedBy(c) = Some(inflight[q].actor)
     /\ \A c \in clients, d \in clients' :
          (c.id = d.id /\ InheritedBy(c) # InheritedBy(d)) =>
            \E q \in Requests : ClaimApplied(q) /\ inflight[q].match.id = c.id
     /\ \A q \in Requests :
          (inflight[q].route = "take-ownership" /\ inflight[q].stage = "respond"
             /\ inflight'[q] = NoHandler) =>
            /\ ResponseOk(resp'.status)
            /\ resp'.req.identity = Some(inflight[q].actor)]_vars

\* two actors race to claim a registration that a third claim had given to
\* one of them: both updates are applied, neither has answered yet, and the
\* registration is held by one of the two
C25_Witness ==
  \E p, q \in Requests :
    /\ p # q
    /\ inflight[p].route = "take-ownership" /\ inflight[p].stage = "respond"
    /\ inflight[q].route = "take-ownership" /\ inflight[q].stage = "respond"
    /\ inflight[p].match.id = inflight[q].match.id
    /\ inflight[p].actor # inflight[q].actor
    /\ InheritedBy(inflight[p].match) = Some(inflight[q].actor)
    /\ \E c \in clients : c.id = inflight[p].match.id /\ InheritedBy(c) = Some(inflight[p].actor)

\* --------------------------------------------------------- remaining claims
\* C31: every admin request of a registry operation targets the realm the
\* caller supplied; an operation called without a realm sends none
C31_NoDefaultRealm ==
  resp.route \in RegistryRoutes =>
    \A i \in AdminAt(resp.sent) :
      /\ resp.req.realm # Undefined
      /\ resp.sent[i].realm = Val(resp.req.realm)

\* C32: right after an actor's claim is answered with success, the
\* registrations listed by creator for that actor in the realm include the
\* claimed one
C32_ClaimedIsListed ==
  (resp.route = "take-ownership" /\ ResponseOk(resp.status)) =>
    \A c \in resp.body.clients :
      \E d \in ClientsByCreator(c.realm, Val(resp.req.identity)) : d.id = c.id

\* the client object of the admin request of a create
PostedSettings(r) ==
  {r.sent[i].client : i \in {j \in 1..Len(r.sent) : r.sent[j].op = "createClient"}}

\* C33: a create that reaches the upstream posts each flow setting the
\* request supplies with the value supplied
C33_SettingsForwarded ==
  resp.route = "create" =>
    \A posted \in PostedSettings(resp) :
      \A k \in DOMAIN resp.req.settings :
        resp.req.settings[k] # Undefined => posted[k] = Val(resp.req.settings[k])

\* the ledger rows a rotation handler's insert would have written
RowsOfRotation(table, h) ==
  {i \in 1..Len(table) :
     /\ table[i].realm = h.realm
     /\ table[i].client_id = h.id
     /\ table[i].created_by = h.createdBy
     /\ table[i].action = "regenerated"
     /\ table[i].secret_last4 = Last4(h.returned)}

\* C34: when a rotation is answered with success, the row of that rotation
\* is in the ledger before the answer; every other answer of a rotation
\* carries no secret
C34_RowBeforeSecret ==
  [][/\ \A q \in Requests :
          (inflight[q].route = "regenerate" /\ inflight'[q] = NoHandler /\ ResponseOk(resp'.status)) =>
            RowsOfRotation(ledger, inflight[q]) # {}
     /\ (resp'.route = "regenerate" /\ ~ResponseOk(resp'.status)) =>
          resp'.body.secret = Undefined]_vars

\* a rotation answered with its secret
C34_Witness ==
  /\ resp.route = "regenerate"
  /\ ResponseOk(resp.status)
  /\ resp.body.secret # Undefined
  /\ \E i \in 1..Len(ledger) :
       ledger[i].client_id = resp.req.id /\ ledger[i].secret_last4 = Last4(resp.body.secret)

ReadRoutes == {"get", "list", "secret", "secret-history"}

\* C35: reading a client's secret, getting or listing clients and querying
\* the history leave the ledger table, its rows and its id sequence as they
\* were
C35_ReadsLeaveLedger ==
  [][resp'.route \in ReadRoutes =>
       /\ ledger' = ledger
       /\ nextRowId' = nextRowId
       /\ hasTable' = hasTable]_vars

\* a secret read after a rotation has written its row
C35_Witness ==
  /\ resp.route = "secret"
  /\ ResponseOk(resp.status)
  /\ resp.body.secret # Undefined
  /\ ledger # <<>>

\* the positions in the calls of a press at which a claim succeeded
ClaimsDone == {i \in 1..Len(page.calls) : page.calls[i].call \in {"clientId", "name"} /\ page.calls[i].ok}

\* C36: in one press at most one claim succeeds; a claim by name follows only
\* a claim by clientId that failed; candidates are on display only after the
\* claim by name failed as ambiguous; the list is reloaded only right after a
\* claim that succeeded
C36_OnePressOneClaim ==
  /\ Cardinality(ClaimsDone) <= 1
  /\ \A i \in 1..Len(page.calls) : page.calls[i].call = "name" =>
       /\ \E j \in 1..(i - 1) : page.calls[j].call = "clientId"
       /\ \A j \in 1..(i - 1) : page.calls[j].call = "clientId" => ~page.calls[j].ok
  /\ page.claimCandidates # {} =>
       \E i \in 1..Len(page.calls) :
         /\ page.calls[i].call = "name"
         /\ ~page.calls[i].ok
         /\ page.calls[i].code = "AMBIGUOUS_NAME"
  /\ \A i \in 1..Len(page.calls) : page.calls[i].call = "list" =>
       i > 1 /\ (i - 1) \in ClaimsDone

\* C37: two sign-ins of different accounts never get the same sub
C37_DistinctAccountsDistinctRefs ==
  \A s, t \in signedIn : s.account # t.account => s.sub # t.sub

====
